---- MODULE Spec2Model ----
(***************************************************************************)
(* Control-protocol engine (Query), subprocess transport and session       *)
(* client (ClaudeSDKClient) of claude_code_sdk, as a state machine.        *)
(*                                                                         *)
(* Spec          the content stream of one Engine session: reader task,    *)
(*               content queue, consumer, close().                         *)
(* DispatchSpec  inbound control requests and their dispatch tasks.        *)
(* ControlSpec   concurrent outbound control requests and their timeouts.  *)
(* RequestSpec   one caller's control calls over a failing transport.      *)
(* ClientSpec    the calls made on one ClaudeSDKClient.                    *)
(* CloseSpec, ConnectSpec, FailureSpec, QuerySpec, ReadSpec, DecodeSpec,   *)
(* BridgeSpec, ConcurrentSpec, RoutingSpec, CorrelationSpec, StreamSpec,   *)
(* HookSpec and OneShotSpec are further scenarios over the same actions,   *)
(* described where they are defined.                                       *)
(***************************************************************************)
EXTENDS Integers, Sequences, FiniteSets, TLC

\* ---------------------------------------------------------------- bounds
\* objects the transport's read_messages() yields in one run
MaxRead == 4
\* capacity of the content queue in the model (the code's is QueueSize)
QueueCap == 2
\* inbound control requests the CLI sends in one run
MaxInbound == 2
\* outbound control requests the caller issues in one run
MaxReq == 3
\* receive_messages()/receive_response() calls the caller makes in one run
MaxCalls == 2
\* messages in the prompt stream given to stream_input
MaxSource == 1
\* the longest prompt stream of StreamSpec
MaxStream == 3
\* calls made on one ClaudeSDKClient in one run
MaxClientOps == 4
\* calls of Query.close() on one Engine
MaxClose == 2
\* initialize() calls on one Engine in one run
MaxInitialize == 2
\* start() calls on one Engine in one run
MaxStart == 3
\* messages an asynchronous source of query() yields
MaxQuerySource == 2
\* JSON texts on the wire that read_messages() is given
MaxObjects == 2
\* _MAX_BUFFER_SIZE, scaled down to the length of the wire texts
MAX_BUFFER_SIZE == 8
\* JSONRPC messages given to the in-process tool bridge
MaxMcpCalls == 3

\* ------------------------------------------------------- program constants
\* max_buffer_size of the content queue
QueueSize == 100
\* anyio.fail_after(60.0) of _send_control_request, in seconds
ControlTimeoutSeconds == 60

\* ---------------------------------------------------------------- values
\* Python's None
None == "None"
\* the empty dict {} returned when a success response carries no payload
EmptyMap == "{}"
\* connect(prompt=None): no prompt stream, stream_input is not started
NoPrompt == 0 - 1
\* a dict with no keys, as the default of message.get("response", {})
NoFields == [k \in {} |-> None]
\* process return codes, as text (None while the process runs)
ExitCodes == {"0", "1"}

\* dict.get(key, default)
Get(d, key, default) == IF key \in DOMAIN d THEN d[key] ELSE default

\* message types of the Message union that the CLI emits as content
ContentTypes == {"assistant", "result"}

VARIABLES
    \* ---- Query (Engine)
    closed,                     \* Query._closed
    closing,                    \* history: the calls of start() and close() so far
    rd,                         \* SubprocessCLITransport._read_messages_impl on a wire text
    mcp,                        \* history: the JSONRPC messages given to the tool bridge, with its answers
    hooks,                      \* the hook settings, the Hook Callback Registry and what initialize() sent
    tg,                         \* Query._tg: "none" | "active" | "crashed" | "exited"
    can_use_tool,               \* a permission callback is registered
    reader,                     \* _read_messages task: "running" | "finishing" | "done" | "cancelled"
    rpend,                      \* items the reader still has to send to the queue
    queue,                      \* buffer of the memory object stream
    nread,                      \* objects read_messages() has yielded so far
    content_read,               \* content messages read from the transport, in order
    dispatch,                   \* _handle_control_request tasks, one per inbound request
    request_counter,            \* Query._request_counter
    req,                        \* _send_control_request calls, by correlation ID
    pending_control_responses,  \* request_id -> event is set
    pending_control_results,    \* request_id -> stored result
    streamer,                   \* stream_input task
    source,                     \* the prompt stream: messages left, lines written
    \* ---- SubprocessCLITransport
    tr,                         \* [ready, stdin, process, returncode, exit_error]
    \* ---- caller
    cons,                       \* the caller's current receive call
    delivered,                  \* messages yielded to the caller, over all calls
    ncalls,
    \* ---- ClaudeSDKClient (ClientSpec)
    client

queryVars == <<closed, closing, tg, can_use_tool, reader, rpend, queue, nread, content_read,
                dispatch, request_counter, req, pending_control_responses,
                pending_control_results, streamer, source, tr, cons, delivered, ncalls>>
engineVars == <<queryVars, rd, mcp, hooks>>
vars == <<engineVars, client>>

\* ------------------------------------------------------------- transport
\* SubprocessCLITransport after connect() in streaming mode
TransportConnected ==
    [ready |-> TRUE, stdin |-> TRUE, process |-> TRUE, returncode |-> None,
     exit_error |-> FALSE]

\* SubprocessCLITransport.write raises CLIConnectionError (the three guards)
WriteFails(t) ==
    \/ ~t.ready \/ ~t.stdin
    \/ (t.process /\ t.returncode # None)
    \/ t.exit_error

\* SubprocessCLITransport.end_input: closes stdin and drops the stream
EndInput(t) == [t EXCEPT !.stdin = FALSE]

\* SubprocessCLITransport.close
TransportClose(t) ==
    IF ~t.process THEN [t EXCEPT !.ready = FALSE]
    ELSE [ready |-> FALSE, stdin |-> FALSE, process |-> FALSE,
          returncode |-> None, exit_error |-> FALSE]

\* ------------------------------------------------- transport: read loop
\* texts are sequences of characters
Whitespace == {" ", "\n"}

\* str.strip()
RECURSIVE StripLeft(_)
StripLeft(s) ==
    IF s # <<>> /\ Head(s) \in Whitespace THEN StripLeft(Tail(s)) ELSE s
RECURSIVE StripRight(_)
StripRight(s) ==
    IF s # <<>> /\ s[Len(s)] \in Whitespace
    THEN StripRight(SubSeq(s, 1, Len(s) - 1)) ELSE s
Strip(s) == StripRight(StripLeft(s))

\* a faulty split, to test C17 against: the chunk is taken as one line
SplitNot(s) == <<s>>

\* str.split("\n")
RECURSIVE Split(_)
Split(s) ==
    IF \A i \in DOMAIN s : s[i] # "\n" THEN <<s>>
    ELSE LET i == CHOOSE i \in DOMAIN s :
                      s[i] = "\n" /\ \A j \in 1..(i - 1) : s[j] # "\n"
         IN  <<SubSeq(s, 1, i - 1)>> \o Split(SubSeq(s, i + 1, Len(s)))

\* json.loads on the texts of the wire: an object that is empty or has one
\* string member, with whitespace allowed around the member; anything else
\* is a JSONDecodeError. data is the member's text
JsonLoads(text) ==
    LET inner == Strip(SubSeq(text, 2, Len(text) - 1)) IN
    IF Len(text) >= 2 /\ text[1] = "{" /\ text[Len(text)] = "}"
       /\ \/ inner = <<>>
          \/ /\ Len(inner) >= 2
             /\ inner[1] = "\"" /\ inner[Len(inner)] = "\""
             /\ \A i \in 2..(Len(inner) - 1) : inner[i] # "\""
    THEN [ok |-> TRUE,
          data |-> IF inner = <<>> THEN <<>> ELSE SubSeq(inner, 2, Len(inner) - 1)]
    ELSE [ok |-> FALSE, data |-> <<>>]

\* a faulty limit, to test C18 against: the buffer is kept when it is too long
ReadLinesKeeping(json_buffer, json_lines, yielded, peak) ==
    [json_buffer |-> json_buffer \o Strip(Head(json_lines)), yielded |-> yielded,
     peak |-> peak, error |-> IF Len(json_buffer \o Strip(Head(json_lines)))
                                   > MAX_BUFFER_SIZE
                              THEN "SDKJSONDecodeError" ELSE None]

\* the loop over the lines of one chunk: a line is stripped and, unless it
\* is empty, appended to the buffer; a buffer over the limit is emptied and
\* SDKJSONDecodeError raised; a buffer that parses is yielded and emptied.
\* peak is history: the longest text accumulated
RECURSIVE ReadLines(_, _, _, _)
ReadLines(json_buffer, json_lines, yielded, peak) ==
    IF json_lines = <<>>
    THEN [json_buffer |-> json_buffer, yielded |-> yielded, peak |-> peak,
          error |-> None]
    ELSE LET json_line == Strip(Head(json_lines))
             buffer == json_buffer \o json_line
             seen == IF Len(buffer) > peak THEN Len(buffer) ELSE peak
         IN  IF json_line = <<>>
             THEN ReadLines(json_buffer, Tail(json_lines), yielded, peak)
             ELSE IF Len(buffer) > MAX_BUFFER_SIZE
             THEN [json_buffer |-> <<>>, yielded |-> yielded, peak |-> seen,
                   error |-> "SDKJSONDecodeError"]
             ELSE IF JsonLoads(buffer).ok
             THEN ReadLines(<<>>, Tail(json_lines),
                            Append(yielded, JsonLoads(buffer).data), seen)
             ELSE ReadLines(buffer, Tail(json_lines), yielded, seen)

\* the complete JSON texts of the wire, and texts that are never terminated
Objects ==
    {<<"{", "\"", "a", " ", "b", "\"", "}">>,
     <<"{", " ", "\"", "b", "\"", " ", "}">>}
Fragments == {<<"{", "\"", "c", "c", "c", "c", "c", "c", "c">>}
\* a complete line that is not JSON
Malformed == {<<"{", "x", "}">>}

\* what follows a text on the wire: one or more newlines
Separators == {<<"\n">>, <<"\n", "\n">>}

\* the wire text of the texts ts, each followed by the separator sep
RECURSIVE WireOf(_, _)
WireOf(ts, sep) ==
    IF ts = <<>> THEN <<>>
    ELSE Head(ts) \o sep \o WireOf(Tail(ts), sep)

\* no read_messages() in progress
NoRead ==
    [st |-> "idle", items |-> <<>>, wire |-> <<>>, json_buffer |-> <<>>,
     yielded |-> <<>>, peak |-> 0, chunks |-> 0]

\* read_messages() is started on a wire that holds up to MaxObjects texts.
\* items and chunks are history: the texts, and the chunks delivered
ReadStartsOf(texts) ==
    {[NoRead EXCEPT !.st = "reading", !.items = ts, !.wire = WireOf(ts, sep)] :
        ts \in UNION {[1..n -> texts] : n \in 1..MaxObjects},
        sep \in Separators}
ReadStarts == ReadStartsOf(Objects \cup Fragments)

\* the stdout stream delivers the next chunk, cut at any position
ReadChunk ==
    /\ rd.st = "reading" /\ rd.wire # <<>>
    /\ \E n \in 1..Len(rd.wire) :
         LET line_str == Strip(SubSeq(rd.wire, 1, n))
             rest == SubSeq(rd.wire, n + 1, Len(rd.wire))
             r == ReadLines(rd.json_buffer, Split(line_str), rd.yielded, rd.peak)
         IN  IF line_str = <<>>
             THEN rd' = [rd EXCEPT !.wire = rest, !.chunks = @ + 1]
             ELSE rd' = [rd EXCEPT !.wire = rest, !.chunks = @ + 1,
                                   !.json_buffer = r.json_buffer,
                                   !.yielded = r.yielded,
                                   !.peak = r.peak,
                                   !.st = IF r.error # None THEN "failed" ELSE @]
    /\ UNCHANGED <<queryVars, client, mcp, hooks>>

\* the stdout stream ends, and the process has exited with code 0
ReadEnd ==
    /\ rd.st = "reading" /\ rd.wire = <<>>
    /\ rd' = [rd EXCEPT !.st = "ended"]
    /\ UNCHANGED <<queryVars, client, mcp, hooks>>

\* ------------------------------------------------ in-process tool bridge
\* Query.sdk_mcp_servers: one server, made by create_sdk_mcp_server with four
\* tools: "add" returns a text, "fail" raises, "snap" returns an image between
\* two texts, "warn" returns a text and marks it as an error
sdk_mcp_servers == {"calc"}
tool_map == {"add", "fail", "snap", "warn"}

\* the handler of a tool: what it returns or raises
ToolHandler(name) ==
    CASE name = "add" -> [content |-> <<[type |-> "text", text |-> "sum"]>>]
      [] name = "snap" ->
           [content |-> <<[type |-> "text", text |-> "before"],
                          [type |-> "image", data |-> "base64", mimeType |-> "image/png"],
                          [type |-> "text", text |-> "after"]>>]
      [] name = "warn" ->
           [content |-> <<[type |-> "text", text |-> "too large"]>>, is_error |-> TRUE]
      [] OTHER -> [raise |-> "Expected error"]

\* the bridge's conversion of one content item of a CallToolResult: an item
\* with a text becomes a text item, one with data and mimeType an image item,
\* any other is left out
WireItems(item) ==
    IF "text" \in DOMAIN item THEN <<[type |-> "text", text |-> item.text]>>
    ELSE IF "data" \in DOMAIN item /\ "mimeType" \in DOMAIN item
    THEN <<[type |-> "image", data |-> item.data, mimeType |-> item.mimeType]>>
    ELSE <<>>
RECURSIVE WireContent(_)
WireContent(content) ==
    IF content = <<>> THEN <<>>
    ELSE WireItems(Head(content)) \o WireContent(Tail(content))

\* call_tool of create_sdk_mcp_server: an unknown name raises ValueError;
\* else the handler is called and the text items of its content returned
call_tool(name) ==
    IF name \notin tool_map
    THEN [raise |-> "Tool not found"]
    ELSE LET result == ToolHandler(name) IN
         IF "raise" \in DOMAIN result THEN result
         ELSE [content |-> IF "content" \in DOMAIN result
                           THEN SelectSeq(result.content,
                                          LAMBDA item : item.type = "text")
                           ELSE <<>>]

\* the request handler that server.call_tool() registers for CallToolRequest:
\* it returns a CallToolResult, with isError set and the text of the
\* exception as content when call_tool raised
CallToolResult(name) ==
    LET returned == call_tool(name) IN
    IF "raise" \in DOMAIN returned
    THEN [content |-> <<[type |-> "text", text |-> returned.raise]>>, isError |-> TRUE]
    ELSE [content |-> returned.content, isError |-> FALSE]

\* the JSONRPC methods and tool names the CLI may send; "resources/list" is
\* one the bridge does not route
McpMethods ==
    {"initialize", "tools/list", "tools/call", "notifications/initialized",
     "resources/list"}
McpMessages ==
    {[id |-> "7", method |-> m, params |-> EmptyMap] : m \in McpMethods \ {"tools/call"}}
    \cup {[id |-> "7", method |-> "tools/call", params |-> [name |-> n]] :
             n \in tool_map \cup {"nope"}}

JsonRpcError(message, code, text) ==
    [jsonrpc |-> "2.0", id |-> Get(message, "id", None),
     error |-> [code |-> code, message |-> text]]
JsonRpcResult(message, result) ==
    [jsonrpc |-> "2.0", id |-> Get(message, "id", None), result |-> result]

\* _handle_sdk_mcp_request: the JSONRPC response for a message to a server
HandleSdkMcpRequest(server_name, message) ==
    IF server_name \notin sdk_mcp_servers
    THEN JsonRpcError(message, "-32601", "Server not found")
    ELSE LET method == Get(message, "method", None)
             params == Get(message, "params", EmptyMap)
         IN  CASE method = "initialize" ->
                    JsonRpcResult(message,
                        [protocolVersion |-> "2024-11-05",
                         capabilities |-> [tools |-> EmptyMap],
                         serverInfo |-> [name |-> server_name, version |-> "1.0.0"]])
               [] method = "tools/list" ->
                    JsonRpcResult(message, [tools |-> tool_map])
               [] method = "tools/call" ->
                    LET result == CallToolResult(Get(params, "name", None))
                        content == WireContent(result.content)
                    IN  JsonRpcResult(message,
                            IF "is_error" \in DOMAIN result /\ result["is_error"]
                            THEN [content |-> content, is_error |-> TRUE]
                            ELSE [content |-> content])
               [] method = "notifications/initialized" ->
                    [jsonrpc |-> "2.0", result |-> EmptyMap]
               [] OTHER ->
                    JsonRpcError(message, "-32601", "Method not found")

\* the CLI sends a JSONRPC message for the server "calc" or for a server that
\* is not registered, and the bridge answers it
McpCall ==
    /\ Len(mcp) < MaxMcpCalls
    /\ \E server_name \in sdk_mcp_servers \cup {"ghost"}, message \in McpMessages :
         mcp' = Append(mcp, [server_name |-> server_name, message |-> message,
                             response |-> HandleSdkMcpRequest(server_name, message)])
    /\ UNCHANGED <<queryVars, client, rd, hooks>>

\* --------------------------------------------------------- content queue
EndItem == [type |-> "end"]
ErrorItem(text) == [type |-> "error", error |-> text]

\* texts of the two fatal read errors
DecodeErrorText == "JSON message exceeded maximum buffer size"
ProcessErrorText == "Command failed with exit code 1"

\* what the reader becomes once it has nothing left to send
AfterSend(r, left) == IF r = "finishing" /\ left = <<>> THEN "done" ELSE r

\* a faulty send, to test C1 against: it drops the item when the buffer is full
OfferDropping(r, items) ==
    IF Len(queue) < QueueCap
    THEN /\ queue' = Append(queue, Head(items))
         /\ rpend' = Tail(items)
         /\ reader' = AfterSend(r, Tail(items))
    ELSE /\ queue' = queue
         /\ rpend' = Tail(items)
         /\ reader' = AfterSend(r, Tail(items))

\* send() on a stream without a buffer limit: every item is appended at once
OfferUnbounded(r, items) ==
    /\ queue' = Append(queue, Head(items))
    /\ rpend' = Tail(items)
    /\ reader' = AfterSend(r, Tail(items))

\* _message_send.send(item) for each of items in turn: an item goes into the
\* buffer when there is room, else the reader waits holding the rest
Offer(r, items) ==
    IF Len(queue) < QueueCap
    THEN /\ queue' = Append(queue, Head(items))
         /\ rpend' = Tail(items)
         /\ reader' = AfterSend(r, Tail(items))
    ELSE /\ queue' = queue
         /\ rpend' = items
         /\ reader' = r

\* message_parser.parse_message: the typed message of a raw content object
parse_message(data) ==
    [kind |-> CASE data.type = "user" -> "UserMessage"
                [] data.type = "assistant" -> "AssistantMessage"
                [] data.type = "system" -> "SystemMessage"
                [] data.type = "result" -> "ResultMessage"
                [] OTHER -> "MessageParseError",
     data |-> data]

\* ---------------------------------------------------- hook registration
\* f"hook_{n}": the text "hook_" and the decimal number
HookId(n) == <<"hook_", n>>

\* a dict with one more assignment d[key] = value (a key already there is
\* overwritten)
Assign(d, key, value) == (key :> value) @@ d

\* initialize(), the loop over the callbacks of one matcher. st holds
\* hook_callbacks, next_callback_id and the callback_ids list so far
RECURSIVE RegisterCallbacks(_, _)
RegisterCallbacks(st, callbacks) ==
    IF callbacks = <<>> THEN st
    ELSE LET callback_id == HookId(st.next_callback_id) IN
         RegisterCallbacks(
             [hook_callbacks |-> Assign(st.hook_callbacks, callback_id, Head(callbacks)),
              next_callback_id |-> st.next_callback_id + 1,
              callback_ids |-> Append(st.callback_ids, callback_id)],
             Tail(callbacks))

\* initialize(), the loop over the matchers of one event. st holds
\* hook_callbacks, next_callback_id and the list hooks_config[event] so far
RECURSIVE RegisterMatchers(_, _)
RegisterMatchers(st, matchers) ==
    IF matchers = <<>> THEN st
    ELSE LET matcher == Head(matchers)
             r == RegisterCallbacks(
                      [hook_callbacks |-> st.hook_callbacks,
                       next_callback_id |-> st.next_callback_id,
                       callback_ids |-> <<>>],
                      Get(matcher, "hooks", <<>>))
         IN  RegisterMatchers(
                 [hook_callbacks |-> r.hook_callbacks,
                  next_callback_id |-> r.next_callback_id,
                  config |-> Append(st.config,
                                    [matcher |-> Get(matcher, "matcher", None),
                                     hookCallbackIds |-> r.callback_ids])],
                 Tail(matchers))

\* initialize(), the loop over self.hooks.items(): an event without matchers
\* gets no entry. A dict is the sequence of its items in insertion order. st
\* holds hook_callbacks, next_callback_id and hooks_config so far
RECURSIVE RegisterEvents(_, _)
RegisterEvents(st, items) ==
    IF items = <<>> THEN st
    ELSE LET item == Head(items) IN
         IF item.matchers = <<>> THEN RegisterEvents(st, Tail(items))
         ELSE LET r == RegisterMatchers(
                           [hook_callbacks |-> st.hook_callbacks,
                            next_callback_id |-> st.next_callback_id,
                            config |-> <<>>],
                           item.matchers)
              IN  RegisterEvents(
                      [hook_callbacks |-> r.hook_callbacks,
                       next_callback_id |-> r.next_callback_id,
                       hooks_config |-> Append(st.hooks_config,
                                               [event |-> item.event,
                                                config |-> r.config])],
                      Tail(items))

\* the Engine's hook state after Query.__init__ with the hook settings h:
\* nothing registered, nothing sent (sent: the "hooks" values of the
\* initialize requests made, in order)
HooksMade(h) ==
    [hooks |-> h, hook_callbacks |-> <<>>, next_callback_id |-> 0, sent |-> <<>>]

\* the hook state after initialize() has built and sent its request
Initialized(hk) ==
    LET r == RegisterEvents(
                 [hook_callbacks |-> hk.hook_callbacks,
                  next_callback_id |-> hk.next_callback_id,
                  hooks_config |-> <<>>],
                 hk.hooks)
    IN  [hk EXCEPT
           !.hook_callbacks = r.hook_callbacks,
           !.next_callback_id = r.next_callback_id,
           !.sent = Append(@, IF r.hooks_config = <<>> THEN None
                              ELSE r.hooks_config)]

\* hook settings with one hook, and a session that was initialized with them
OneHookSettings ==
    <<[event |-> "PreToolUse",
       matchers |-> <<[matcher |-> "Bash", hooks |-> <<"check_bash">>]>>]>>
OneHook == Initialized(HooksMade(OneHookSettings))

\* ------------------------------------------- inbound control requests
\* the IDs in Query.hook_callbacks
hook_callbacks == DOMAIN hooks.hook_callbacks

\* a JSONRPC message of the CLI for a tool server
ToolsListMessage == [id |-> "7", method |-> "tools/list", params |-> EmptyMap]

\* the request bodies the CLI sends (request["request"]); "ghost" is a server
\* that is not registered
InboundRequests ==
    { [subtype |-> "can_use_tool", tool_name |-> "Bash", input |-> "input"],
      [subtype |-> "hook_callback", callback_id |-> HookId(0), input |-> "input"],
      [subtype |-> "hook_callback", callback_id |-> HookId(9), input |-> "input"],
      [subtype |-> "mcp_message", server_name |-> "calc", message |-> ToolsListMessage],
      [subtype |-> "mcp_message", server_name |-> "ghost", message |-> ToolsListMessage],
      [subtype |-> "mcp_message", message |-> ToolsListMessage],
      [subtype |-> "mcp_message", server_name |-> "calc"],
      [subtype |-> "bogus"] }

\* what the user's permission callback may do
PermissionOutcomes ==
    { [kind |-> "allow", updated_input |-> None],
      [kind |-> "allow", updated_input |-> "replacement"],
      [kind |-> "deny", message |-> "blocked"],
      [kind |-> "other"],
      [kind |-> "raise", text |-> "callback failed"] }

\* what a hook callback may do (the dispatch records which callback it
\* awaited)
HookOutcomes ==
    { [kind |-> "return", value |-> "hook_output"],
      [kind |-> "raise", text |-> "callback failed"] }

\* what _handle_sdk_mcp_request does: it catches every exception itself and
\* returns a JSONRPC response
McpOutcomes(server_name, message) ==
    { [kind |-> "return", value |-> HandleSdkMcpRequest(server_name, message)] }

\* no callback is awaited: the handler raises before it calls anything
NoCall == [kind |-> "none"]

\* the outcomes of the await inside _handle_control_request for one request
CallbackOutcomes(request_data) ==
    LET subtype == request_data.subtype IN
    CASE subtype = "can_use_tool" /\ can_use_tool -> PermissionOutcomes
      [] subtype = "hook_callback"
           /\ request_data.callback_id \in hook_callbacks ->
                {o @@ [callback |-> hooks.hook_callbacks[request_data.callback_id]] :
                     o \in HookOutcomes}
      [] subtype = "mcp_message"
           /\ Get(request_data, "server_name", None) # None
           /\ "message" \in DOMAIN request_data ->
                McpOutcomes(request_data.server_name, request_data.message)
      [] OTHER -> {NoCall}

Success(data) == [ok |-> TRUE, data |-> data]
Raise(text) == [ok |-> FALSE, error |-> text]

\* a faulty permission mapping, to test C7 against: Allow always carries an
\* input key, and any other return value is taken as a denial
HandleControlRequestAlwaysInput(request_data, cb) ==
    LET subtype == request_data.subtype IN
    CASE subtype = "can_use_tool" ->
           IF ~can_use_tool THEN Raise("canUseTool callback is not provided")
           ELSE CASE cb.kind = "raise" -> Raise(cb.text)
                  [] cb.kind = "allow" ->
                       Success([allow |-> TRUE, input |-> cb.updated_input])
                  [] cb.kind = "deny" ->
                       Success([allow |-> FALSE, reason |-> cb.message])
                  [] OTHER ->
                       Success([allow |-> FALSE, reason |-> None])
      [] subtype = "hook_callback" ->
           IF request_data.callback_id \notin hook_callbacks
           THEN Raise("No hook callback found for ID")
           ELSE IF cb.kind = "raise" THEN Raise(cb.text) ELSE Success(cb.value)
      [] subtype = "mcp_message" ->
           IF Get(request_data, "server_name", None) = None
              \/ "message" \notin DOMAIN request_data
           THEN Raise("Missing server_name or message for MCP request")
           ELSE Success([mcp_response |-> cb.value])
      [] OTHER -> Raise("Unsupported control request subtype")

\* the try block of _handle_control_request: response_data, or the exception
HandleControlRequest(request_data, cb) ==
    LET subtype == request_data.subtype IN
    CASE subtype = "can_use_tool" ->
           IF ~can_use_tool THEN Raise("canUseTool callback is not provided")
           ELSE CASE cb.kind = "raise" -> Raise(cb.text)
                  [] cb.kind = "allow" ->
                       IF cb.updated_input # None
                       THEN Success([allow |-> TRUE, input |-> cb.updated_input])
                       ELSE Success([allow |-> TRUE])
                  [] cb.kind = "deny" ->
                       Success([allow |-> FALSE, reason |-> cb.message])
                  [] OTHER ->
                       Raise("Tool permission callback must return PermissionResult")
      [] subtype = "hook_callback" ->
           IF request_data.callback_id \notin hook_callbacks
           THEN Raise("No hook callback found for ID")
           ELSE IF cb.kind = "raise" THEN Raise(cb.text) ELSE Success(cb.value)
      [] subtype = "mcp_message" ->
           IF Get(request_data, "server_name", None) = None
              \/ "message" \notin DOMAIN request_data
           THEN Raise("Missing server_name or message for MCP request")
           ELSE Success([mcp_response |-> cb.value])
      [] OTHER -> Raise("Unsupported control request subtype")

SuccessResponse(request_id, response_data) ==
    [type |-> "control_response",
     response |-> [subtype |-> "success", request_id |-> request_id,
                   response |-> response_data]]

ErrorResponse(request_id, text) ==
    [type |-> "control_response",
     response |-> [subtype |-> "error", request_id |-> request_id, error |-> text]]

\* the line _handle_control_request hands to transport.write
ResponseLine(request, cb) ==
    LET out == HandleControlRequest(request.request, cb) IN
    IF out.ok THEN SuccessResponse(request.request_id, out.data)
    ELSE ErrorResponse(request.request_id, out.error)

\* at: the position of the request among the objects the reader has read;
\* late: the request was read after stream_input had ended the input
FreeSlot ==
    [st |-> "free", request |-> None, cb |-> None, lines |-> <<>>, at |-> 0,
     late |-> FALSE]

\* the task group's cancel scope is cancelled: every task of the Engine gets
\* the cancellation at the await it is suspended in
CancelledReader(r) == IF r \in {"running", "finishing"} THEN "cancelled" ELSE r
CancelledDispatch(d) ==
    [k \in DOMAIN d |-> IF d[k].st = "running" THEN [d[k] EXCEPT !.st = "cancelled"]
                        ELSE d[k]]
CancelledStreamer(s) == IF s = "running" THEN "cancelled" ELSE s

\* ------------------------------------------ outbound control requests
ControlSubtypes == {"interrupt", "set_permission_mode"}

\* a call of _send_control_request: st, the subtype asked for, what it returned
\* or raised, and the lines it wrote; and, as history, the response the reader
\* stored for it (got) and, for a call that timed out, the calls that were
\* waiting (in_flight) and those not yet made (unsent) when it did
IdleRequest ==
    [st |-> "idle", subtype |-> None, result |-> None, lines |-> 0,
     got |-> None, in_flight |-> {}, unsent |-> {}]

\* the responses the CLI may send back for an outbound request it has read
ControlResponses(request_id) ==
    { [type |-> "control_response",
       response |-> [subtype |-> "success", request_id |-> request_id,
                     response |-> "commands_dict"]],
      [type |-> "control_response",
       response |-> [subtype |-> "success", request_id |-> request_id]],
      [type |-> "control_response",
       response |-> [subtype |-> "error", request_id |-> request_id,
                     error |-> "remote error"]] }

\* isinstance(response_data, dict)
IsDict(x) == x \in {EmptyMap, "commands_dict"}

\* a faulty result, to test C5 against: the payload of a success response is
\* dropped
ControlResultEmpty(result) ==
    IF Get(result, "exception", None) # None
    THEN [st |-> "error", result |-> result.exception]
    ELSE [st |-> "ok", result |-> EmptyMap]

\* what _send_control_request returns or raises once its event is set
ControlResult(result) ==
    IF Get(result, "exception", None) # None
    THEN [st |-> "error", result |-> result.exception]
    ELSE LET response_data == Get(result, "response", EmptyMap) IN
         [st |-> "ok", result |-> IF IsDict(response_data) THEN response_data ELSE EmptyMap]

\* what the reader stores for a control_response that matches a pending entry
StoredResult(response) ==
    IF Get(response, "subtype", None) = "error"
    THEN [exception |-> Get(response, "error", "Unknown error")]
    ELSE response

\* the class of what _send_control_request raises when it ends as st: the
\* Exception stored for an error response, the Exception made from the
\* TimeoutError, or what transport.write raised
ControlRaises(st) ==
    CASE st = "error" -> "Exception"
      [] st = "timeout" -> "Exception"
      [] st = "write_failed" -> "CLIConnectionError"
      [] OTHER -> None

\* request_id in self.pending_control_responses
IsPending(request_id) ==
    request_id \in DOMAIN pending_control_responses
    /\ pending_control_responses[request_id] # "absent"

\* ------------------------------------------------------------------ Init
\* no close() call yet. calls: the calls made; exits: the calls of the task
\* group's __aexit__; releases: the transport.close() calls that ended a
\* subprocess; errors: what the calls raised, in order
NoClose == [calls |-> 0, exits |-> 0, releases |-> 0, errors |-> <<>>,
            starts |-> 0, spawned |-> 0]

\* the history after Query.__init__ and, if started, one start(): starts counts
\* the start() calls and spawned the reader tasks they have started
Started(started) ==
    [NoClose EXCEPT !.starts = IF started THEN 1 ELSE 0,
                    !.spawned = IF started THEN 1 ELSE 0]

\* the messages of a prompt stream of length n, in the order the stream yields
\* them
PromptMessages(n) == [i \in 1..n |-> [type |-> "user", n |-> i]]

\* json.dumps(message) + "\n": the text of the object and the line end
JsonLine(message) == <<message, "\n">>

\* the prompt stream handed to stream_input. left: what the stream has still to
\* yield; lines: what stream_input has written to the transport, in order;
\* ends: the end_input() calls it has made
SourceOf(n) == [left |-> PromptMessages(n), lines |-> <<>>, ends |-> 0]

\* the Engine after Query.__init__ (and start(), if started): the reader is
\* running, and the
\* prompt stream (if any) has been handed to stream_input. callbacks: whether a
\* permission callback is configured; prompts: the lengths of the prompt stream
\* (NoPrompt: no stream_input task); receiving: whether the caller is already
\* iterating receive_messages()
EngineMade(callbacks, prompts, receiving, started) ==
    /\ closed = FALSE
    /\ closing = Started(started)
    /\ tg = IF started THEN "active" ELSE "none"
    /\ can_use_tool \in callbacks
    /\ reader = IF started THEN "running" ELSE "none"
    /\ rpend = <<>>
    /\ queue = <<>>
    /\ nread = 0
    /\ content_read = <<>>
    /\ dispatch = [k \in 1..MaxInbound |-> FreeSlot]
    /\ request_counter = 0
    /\ req = [i \in 1..MaxReq |-> IdleRequest]
    /\ pending_control_responses = [i \in 1..MaxReq |-> "absent"]
    /\ pending_control_results = [i \in 1..MaxReq |-> None]
    /\ \E prompt \in prompts :
         IF prompt = NoPrompt THEN streamer = "none" /\ source = SourceOf(0)
         ELSE streamer = "running" /\ source = SourceOf(prompt)
    /\ tr = TransportConnected
    /\ IF receiving
       THEN /\ cons = [st |-> "iterating", mode |-> "messages", start |-> 0, error |-> None,
                    raised |-> None]
            /\ ncalls = 1
       ELSE /\ cons = [st |-> "idle", mode |-> None, start |-> 0, error |-> None,
                    raised |-> None]
            /\ ncalls = 0
    /\ delivered = <<>>

EngineInit(callbacks, prompts, receiving) ==
    EngineMade(callbacks, prompts, receiving, TRUE)

\* a start() that starts a reader task whenever it is called, to test C34
\* against
StartAlways ==
    /\ closing.starts < MaxStart
    /\ tg' = "active"
    /\ reader' = "running"
    /\ closing' = [closing EXCEPT !.starts = @ + 1, !.spawned = @ + 1]
    /\ UNCHANGED <<closed, can_use_tool, rpend, queue, nread, content_read,
                   dispatch, request_counter, req, pending_control_responses,
                   pending_control_results, streamer, source, tr, cons, delivered,
                   ncalls, client, rd, mcp, hooks>>

\* Query.start(): the task group is made and entered, and the reader task
\* started in it, unless there is a task group already (_tg is never reset, so
\* neither a closed nor a crashed Engine starts one)
Start ==
    /\ closing.starts < MaxStart
    /\ IF tg = "none"
       THEN /\ tg' = "active"
            /\ reader' = "running"
            /\ closing' = [closing EXCEPT !.starts = @ + 1, !.spawned = @ + 1]
       ELSE /\ closing' = [closing EXCEPT !.starts = @ + 1]
            /\ UNCHANGED <<tg, reader>>
    /\ UNCHANGED <<closed, can_use_tool, rpend, queue, nread, content_read,
                   dispatch, request_counter, req, pending_control_responses,
                   pending_control_results, streamer, source, tr, cons, delivered,
                   ncalls, client, rd, mcp, hooks>>

\* ---------------------------------------------------------- reader task
\* the client and the history of close() calls are left alone
clientUnchanged == UNCHANGED <<client, closing, rd, mcp, hooks>>

\* _read_messages: a content object goes to the queue
ReadContent(message) ==
    /\ content_read' = Append(content_read, message)
    /\ Offer(reader, <<message>>)
    /\ UNCHANGED <<dispatch, pending_control_responses, pending_control_results>>

\* a reader that stores a control_response without looking its ID up in the
\* pending table, to test C25 against
ReadControlResponseUnchecked(message) ==
    LET response == Get(message, "response", NoFields)
        request_id == Get(response, "request_id", None)
    IN  /\ pending_control_results' =
             [pending_control_results EXCEPT ![request_id] = StoredResult(response)]
        /\ pending_control_responses' =
             [pending_control_responses EXCEPT ![request_id] = "set"]
        /\ UNCHANGED <<content_read, queue, rpend, reader, dispatch>>

\* _read_messages: a control_response resolves the pending entry with its ID
ReadControlResponse(message) ==
    LET response == Get(message, "response", NoFields)
        request_id == Get(response, "request_id", None)
    IN  /\ IF IsPending(request_id)
           THEN /\ pending_control_results' =
                     [pending_control_results EXCEPT ![request_id] = StoredResult(response)]
                /\ pending_control_responses' =
                     [pending_control_responses EXCEPT ![request_id] = "set"]
           ELSE UNCHANGED <<pending_control_responses, pending_control_results>>
        /\ UNCHANGED <<content_read, queue, rpend, reader, dispatch>>

\* the slot of the next inbound request
NextSlot == Cardinality({k \in DOMAIN dispatch : dispatch[k].st # "free"}) + 1

\* _read_messages: a control_request starts one _handle_control_request task
ReadControlRequest(message) ==
    /\ dispatch' = [dispatch EXCEPT ![NextSlot] =
                      [st |-> "running", request |-> message, cb |-> None, lines |-> <<>>,
                       at |-> nread + 1, late |-> (streamer = "done")]]
    /\ UNCHANGED <<content_read, queue, rpend, reader,
                   pending_control_responses, pending_control_results>>

\* a reader without the "continue" of the control_cancel_request branch, to
\* test C24 against: the object falls through to the content queue
ReadCancelRequestFallsThrough(message) == ReadContent(message)

\* _read_messages: a control_cancel_request is skipped
ReadCancelRequest(message) ==
    UNCHANGED <<content_read, queue, rpend, reader, dispatch,
                pending_control_responses, pending_control_results>>

\* the content objects the CLI can emit next
ContentObjects == {[type |-> t, n |-> Len(content_read) + 1] : t \in ContentTypes}

\* the control responses the CLI can emit to the requests it has received
ResponseObjects ==
    UNION {ControlResponses(i) : i \in {j \in 1..MaxReq : req[j].lines > 0}}

\* a control response with a correlation ID (0) that no request of this Engine
\* carries
StrayObjects == {SuccessResponse(0, "commands_dict")}

\* the control requests the CLI can emit next
RequestObjects ==
    IF NextSlot <= MaxInbound
    THEN {[type |-> "control_request", request_id |-> NextSlot, request |-> r] :
              r \in InboundRequests}
    ELSE {}

CancelObjects == {[type |-> "control_cancel_request", request_id |-> 1]}

\* a reader that awaits each control-request handler inside its loop, to test
\* C20 against
ReaderAwaitsHandlers ==
    /\ reader = "running" /\ rpend = <<>>
    /\ \A k \in DOMAIN dispatch : dispatch[k].st # "running"

\* the reader is at the top of its loop: handlers run as tasks of their own
\* (start_soon), so the loop waits for none of them
ReaderReady == reader = "running" /\ rpend = <<>>

\* one iteration of the loop of _read_messages, on one object of the set wire
ReaderRead(wire) ==
    /\ ReaderReady
    /\ tr.process
    /\ nread < MaxRead
    /\ \E message \in wire :
         /\ nread' = nread + 1
         /\ IF closed
            THEN /\ Offer("finishing", <<EndItem>>)
                 /\ UNCHANGED <<content_read, dispatch, pending_control_responses,
                                pending_control_results>>
            ELSE LET msg_type == Get(message, "type", None) IN
                 CASE msg_type = "control_response" -> ReadControlResponse(message)
                   [] msg_type = "control_request" -> ReadControlRequest(message)
                   [] msg_type = "control_cancel_request" -> ReadCancelRequest(message)
                   [] OTHER -> ReadContent(message)
    /\ UNCHANGED <<closed, tg, can_use_tool, request_counter, req, streamer, source,
                   tr, cons, delivered, ncalls>>
    /\ clientUnchanged

\* the reader reads a content message
ReadContentObject == ReaderRead(ContentObjects)
\* the reader reads an assistant message
ReadAssistantObject == ReaderRead({m \in ContentObjects : m.type = "assistant"})
\* the reader reads a control response
ReadResponseObject == ReaderRead(ResponseObjects)
\* the reader reads a control response that matches no pending request
ReadStrayObject == ReaderRead(StrayObjects)
\* the reader reads an inbound control request
ReadRequestObject == ReaderRead(RequestObjects)
\* the reader reads an inbound control request of a subtype the Engine lacks
ReadUnsupportedRequest ==
    ReaderRead({m \in RequestObjects : m.request.subtype = "bogus"})
\* the reader reads a can_use_tool request
ReadPermissionRequest ==
    ReaderRead({m \in RequestObjects : m.request.subtype = "can_use_tool"})
\* the reader reads a control_cancel_request
ReadCancelObject == ReaderRead(CancelObjects)
\* the reader reads a hook_callback request: its callback ID is one of those
\* handed out so far, or the next one, which is not registered
ReadHookCallback ==
    ReaderRead({[type |-> "control_request", request_id |-> NextSlot,
                 request |-> [subtype |-> "hook_callback", callback_id |-> HookId(n),
                              input |-> "input"]] :
                    n \in IF NextSlot <= MaxInbound THEN 0..hooks.next_callback_id
                          ELSE {}})

\* the process exits; its return code becomes visible to the transport
ProcExit ==
    /\ tr.process /\ tr.returncode = None
    /\ \E code \in ExitCodes : tr' = [tr EXCEPT !.returncode = code]
    /\ UNCHANGED <<closed, tg, can_use_tool, reader, rpend, queue, nread, content_read,
                   dispatch, request_counter, req, pending_control_responses,
                   pending_control_results, streamer, source, cons, delivered, ncalls>>
    /\ clientUnchanged

\* a faulty end of stream, to test C4 against: the non-zero exit is recorded
\* but the reader enqueues the end sentinel alone
ReaderEOFSilent ==
    /\ reader = "running" /\ rpend = <<>>
    /\ tr.process /\ tr.returncode # None
    /\ tr' = [tr EXCEPT !.exit_error = (tr.returncode # "0")]
    /\ Offer("finishing", <<EndItem>>)
    /\ UNCHANGED <<closed, tg, can_use_tool, nread, content_read, dispatch,
                   request_counter, req, pending_control_responses,
                   pending_control_results, streamer, source, cons, delivered, ncalls>>
    /\ clientUnchanged

\* read_messages() reaches end of stream: _read_messages_impl raises ProcessError
\* for a non-zero exit; the reader enqueues the error and then the end sentinel
ReaderEOF ==
    /\ reader = "running" /\ rpend = <<>>
    /\ tr.process /\ tr.returncode # None
    /\ IF tr.returncode # "0"
       THEN /\ tr' = [tr EXCEPT !.exit_error = TRUE]
            /\ Offer("finishing", <<ErrorItem(ProcessErrorText), EndItem>>)
       ELSE /\ tr' = tr
            /\ Offer("finishing", <<EndItem>>)
    /\ UNCHANGED <<closed, tg, can_use_tool, nread, content_read, dispatch,
                   request_counter, req, pending_control_responses,
                   pending_control_results, streamer, source, cons, delivered, ncalls>>
    /\ clientUnchanged

\* read_messages() raises SDKJSONDecodeError: the buffer exceeded its maximum
ReaderDecodeError ==
    /\ reader = "running" /\ rpend = <<>>
    /\ tr.process /\ tr.returncode = None
    /\ nread < MaxRead
    /\ nread' = nread + 1
    /\ Offer("finishing", <<ErrorItem(DecodeErrorText), EndItem>>)
    /\ UNCHANGED <<closed, tg, can_use_tool, content_read, dispatch,
                   request_counter, req, pending_control_responses,
                   pending_control_results, streamer, source, tr, cons, delivered, ncalls>>
    /\ clientUnchanged

\* the reader, suspended in send(), gets room in the buffer
ReaderSend ==
    /\ reader \in {"running", "finishing"} /\ rpend # <<>>
    /\ Len(queue) < QueueCap
    /\ Offer(reader, rpend)
    /\ UNCHANGED <<closed, tg, can_use_tool, nread, content_read, dispatch,
                   request_counter, req, pending_control_responses,
                   pending_control_results, streamer, source, tr, cons, delivered, ncalls>>
    /\ clientUnchanged

\* ------------------------------------------------------- dispatch tasks
\* _handle_control_request from the return of its callback to its end: it
\* writes the success or error response; a write that raises inside the try is
\* caught by "except Exception", whose own write raises again, out of the task:
\* the task group is cancelled and keeps the exception
HandleRequest(k, cb) ==
    LET d == dispatch[k] IN
    IF ~WriteFails(tr)
    THEN /\ dispatch' = [dispatch EXCEPT ![k] =
                           [d EXCEPT !.st = "done", !.cb = cb,
                                     !.lines = <<ResponseLine(d.request, cb)>>]]
         /\ UNCHANGED <<tg, reader, rpend, streamer>>
    ELSE /\ dispatch' = CancelledDispatch(
                           [dispatch EXCEPT ![k] = [d EXCEPT !.st = "crashed", !.cb = cb]])
         /\ tg' = "crashed"
         /\ reader' = CancelledReader(reader)
         /\ rpend' = <<>>
         /\ streamer' = CancelledStreamer(streamer)

DispatchFinish ==
    /\ tg = "active"
    /\ \E k \in DOMAIN dispatch :
         /\ dispatch[k].st = "running"
         /\ \E cb \in CallbackOutcomes(dispatch[k].request.request) : HandleRequest(k, cb)
    /\ UNCHANGED <<closed, can_use_tool, queue, nread, content_read, request_counter,
                   req, pending_control_responses, pending_control_results, source, tr,
                   cons, delivered, ncalls>>
    /\ clientUnchanged

\* ------------------------------------------ outbound control requests
\* a _send_control_request that does not advance the counter, to test C26
\* against: every call after the first uses the ID of the call before it
SendRequestSameId(subtype) ==
    LET request_id == IF request_counter = 0 THEN 1 ELSE request_counter IN
    /\ request_counter' = request_id
    /\ pending_control_responses' =
          [pending_control_responses EXCEPT ![request_id] = "unset"]
    /\ req' = [req EXCEPT ![request_id] =
                 [@ EXCEPT !.st = "waiting", !.subtype = subtype, !.lines = 1]]

\* _send_control_request up to its wait: counter, pending entry, write
SendRequest(subtype) ==
    LET request_id == request_counter + 1 IN
    /\ request_counter' = request_id
    /\ pending_control_responses' =
          [pending_control_responses EXCEPT ![request_id] = "unset"]
    /\ IF WriteFails(tr)
       THEN req' = [req EXCEPT ![request_id] =
                      [@ EXCEPT !.st = "write_failed", !.subtype = subtype,
                                !.result = "CLIConnectionError", !.lines = 0]]
       ELSE req' = [req EXCEPT ![request_id] =
                      [@ EXCEPT !.st = "waiting", !.subtype = subtype, !.lines = 1]]

SendControlRequest(subtype) ==
    /\ request_counter < MaxReq
    /\ SendRequest(subtype)
    /\ UNCHANGED <<closed, tg, can_use_tool, reader, rpend, queue, nread, content_read,
                   dispatch, pending_control_results, streamer, source, tr, cons,
                   delivered, ncalls>>
    /\ clientUnchanged

\* Query.interrupt, up to its wait
Interrupt == SendControlRequest("interrupt")

\* Query.set_permission_mode, up to its wait
SetPermissionMode == SendControlRequest("set_permission_mode")

\* an initialize() that numbers the callbacks of every call from 0, to test
\* C35 against
InitializeFromZero ==
    /\ request_counter < MaxReq
    /\ Len(hooks.sent) < MaxInitialize
    /\ hooks' = Initialized([hooks EXCEPT !.next_callback_id = 0])
    /\ SendRequest("initialize")
    /\ UNCHANGED <<closed, tg, can_use_tool, reader, rpend, queue, nread, content_read,
                   dispatch, pending_control_results, streamer, source, tr, cons,
                   delivered, ncalls>>
    /\ UNCHANGED <<client, closing, rd, mcp>>

\* Query.initialize in streaming mode, up to the wait of its control request:
\* the callbacks are registered, then the request is sent with the hooks
\* configuration
Initialize ==
    /\ request_counter < MaxReq
    /\ Len(hooks.sent) < MaxInitialize
    /\ hooks' = Initialized(hooks)
    /\ SendRequest("initialize")
    /\ UNCHANGED <<closed, tg, can_use_tool, reader, rpend, queue, nread, content_read,
                   dispatch, pending_control_results, streamer, source, tr, cons,
                   delivered, ncalls>>
    /\ UNCHANGED <<client, closing, rd, mcp>>

\* a caller that makes its control calls one after the other: the next call
\* starts when the previous one has returned or raised
NextControlCall ==
    /\ \A i \in 1..MaxReq : req[i].st # "waiting"
    /\ \E subtype \in ControlSubtypes : SendControlRequest(subtype)

\* the wait ends with the event set: pop the result and return or raise it
Resolve(request_id) ==
    /\ req' = [req EXCEPT ![request_id] =
                 [@ EXCEPT !.st = ControlResult(pending_control_results[request_id]).st,
                           !.result = ControlResult(pending_control_results[request_id]).result,
                           !.got = pending_control_results[request_id]]]
    /\ pending_control_results' = [pending_control_results EXCEPT ![request_id] = None]
    /\ pending_control_responses' = [pending_control_responses EXCEPT ![request_id] = "absent"]

RequestResolved ==
    /\ \E request_id \in 1..MaxReq :
         /\ req[request_id].st = "waiting"
         /\ pending_control_responses[request_id] = "set"
         /\ Resolve(request_id)
    /\ UNCHANGED <<closed, tg, can_use_tool, reader, rpend, queue, nread, content_read,
                   dispatch, request_counter, streamer, source, tr, cons, delivered, ncalls>>
    /\ clientUnchanged

\* a faulty timeout, to test C3 against: it clears the pending tables
TimeoutAll(request_id) ==
    /\ req' = [req EXCEPT ![request_id] =
                 [@ EXCEPT !.st = "timeout",
                           !.result = <<"Control request timeout", req[request_id].subtype>>,
                           !.in_flight = {j \in 1..MaxReq : req[j].st = "waiting"}
                                             \ {request_id},
                           !.unsent = {j \in 1..MaxReq : req[j].st = "idle"}]]
    /\ pending_control_responses' = [i \in 1..MaxReq |-> "absent"]
    /\ pending_control_results' = [i \in 1..MaxReq |-> None]

\* fail_after(60) expires: pop the entries of this request and raise
Timeout(request_id) ==
    /\ req' = [req EXCEPT ![request_id] =
                 [@ EXCEPT !.st = "timeout",
                           !.result = <<"Control request timeout", req[request_id].subtype>>,
                           !.in_flight = {j \in 1..MaxReq : req[j].st = "waiting"}
                                             \ {request_id},
                           !.unsent = {j \in 1..MaxReq : req[j].st = "idle"}]]
    /\ pending_control_responses' = [pending_control_responses EXCEPT ![request_id] = "absent"]
    /\ pending_control_results' = [pending_control_results EXCEPT ![request_id] = None]

RequestTimeout ==
    /\ \E request_id \in 1..MaxReq :
         /\ req[request_id].st = "waiting"
         /\ pending_control_responses[request_id] = "unset"
         /\ Timeout(request_id)
    /\ UNCHANGED <<closed, tg, can_use_tool, reader, rpend, queue, nread, content_read,
                   dispatch, request_counter, streamer, source, tr, cons, delivered, ncalls>>
    /\ clientUnchanged

\* -------------------------------------------------------- input streamer
\* stream_input: one message of the source is written; a write that raises is
\* logged and ends the task
StreamWrite ==
    /\ streamer = "running" /\ source.left # <<>>
    /\ IF closed
       THEN /\ streamer' = "done" /\ tr' = EndInput(tr)
            /\ source' = [source EXCEPT !.ends = @ + 1]
       ELSE IF WriteFails(tr)
       THEN /\ streamer' = "failed" /\ UNCHANGED <<tr, source>>
       ELSE /\ source' = [source EXCEPT
                            !.left = Tail(@),
                            !.lines = Append(@, JsonLine(Head(source.left)))]
            /\ UNCHANGED <<tr, streamer>>
    /\ UNCHANGED <<closed, tg, can_use_tool, reader, rpend, queue, nread, content_read,
                   dispatch, request_counter, req, pending_control_responses,
                   pending_control_results, cons, delivered, ncalls>>
    /\ clientUnchanged

\* a stream_input that ends the input without waiting for the source to be
\* exhausted, to test C33 against
StreamEndInputEarly ==
    /\ streamer = "running"
    /\ streamer' = "done"
    /\ tr' = EndInput(tr)
    /\ source' = [source EXCEPT !.ends = @ + 1]
    /\ UNCHANGED <<closed, tg, can_use_tool, reader, rpend, queue, nread, content_read,
                   dispatch, request_counter, req, pending_control_responses,
                   pending_control_results, cons, delivered, ncalls>>
    /\ clientUnchanged

\* stream_input: the source is exhausted, transport.end_input()
StreamEndInput ==
    /\ streamer = "running" /\ source.left = <<>>
    /\ streamer' = "done"
    /\ tr' = EndInput(tr)
    /\ source' = [source EXCEPT !.ends = @ + 1]
    /\ UNCHANGED <<closed, tg, can_use_tool, reader, rpend, queue, nread, content_read,
                   dispatch, request_counter, req, pending_control_responses,
                   pending_control_results, cons, delivered, ncalls>>
    /\ clientUnchanged

\* ------------------------------------------------------------- consumer
\* the caller starts iterating receive_messages() or receive_response()
StartReceive ==
    /\ cons.st # "iterating"
    /\ ncalls < MaxCalls
    /\ ncalls' = ncalls + 1
    /\ \E mode \in {"messages", "response"} :
         cons' = [st |-> "iterating", mode |-> mode, start |-> Len(delivered),
                  error |-> None, raised |-> None]
    /\ UNCHANGED <<closed, tg, can_use_tool, reader, rpend, queue, nread, content_read,
                   dispatch, request_counter, req, pending_control_responses,
                   pending_control_results, streamer, source, tr, delivered>>
    /\ clientUnchanged

\* a faulty receive_response, to test C8 against: it does not return after a
\* ResultMessage
ReceiveAll(item) ==
    CASE Get(item, "type", None) = "end" ->
           /\ cons' = [cons EXCEPT !.st = "ended"]
           /\ delivered' = delivered
      [] Get(item, "type", None) = "error" ->
           /\ cons' = [cons EXCEPT !.st = "failed",
                                   !.error = Get(item, "error", "Unknown error"),
                                   !.raised = "Exception"]
           /\ delivered' = delivered
      [] OTHER ->
           /\ delivered' = Append(delivered, parse_message(item))
           /\ cons' = cons

\* Query.receive_messages on one item, under ClaudeSDKClient.receive_messages
\* (parse_message) and receive_response (return after a ResultMessage)
Receive(item) ==
    CASE Get(item, "type", None) = "end" ->
           /\ cons' = [cons EXCEPT !.st = "ended"]
           /\ delivered' = delivered
      [] Get(item, "type", None) = "error" ->
           /\ cons' = [cons EXCEPT !.st = "failed",
                                   !.error = Get(item, "error", "Unknown error"),
                                   !.raised = "Exception"]
           /\ delivered' = delivered
      [] OTHER ->
           LET message == parse_message(item) IN
           IF message.kind = "MessageParseError"
           THEN /\ cons' = [cons EXCEPT !.st = "failed", !.error = "MessageParseError",
                                        !.raised = "MessageParseError"]
                /\ delivered' = delivered
           ELSE /\ delivered' = Append(delivered, message)
                /\ cons' = IF cons.mode = "response" /\ message.kind = "ResultMessage"
                           THEN [cons EXCEPT !.st = "returned"]
                           ELSE cons

\* the consumer takes the head of the buffer; a reader waiting in send() has
\* its item moved into the buffer by the same receive
ConsumerNext ==
    /\ cons.st = "iterating"
    /\ queue # <<>>
    /\ Receive(Head(queue))
    /\ IF rpend # <<>>
       THEN /\ queue' = Append(Tail(queue), Head(rpend))
            /\ rpend' = Tail(rpend)
            /\ reader' = AfterSend(reader, Tail(rpend))
       ELSE /\ queue' = Tail(queue)
            /\ UNCHANGED <<rpend, reader>>
    /\ UNCHANGED <<closed, tg, can_use_tool, nread, content_read, dispatch,
                   request_counter, req, pending_control_responses,
                   pending_control_results, streamer, source, tr, ncalls>>
    /\ clientUnchanged

\* the task that called start() is inside the task group's cancel scope: when a
\* crashed dispatch cancels the scope, its pending await is cancelled too.
\* Here it is suspended in receive_messages()
ReceiveCancelled ==
    /\ tg = "crashed"
    /\ cons.st = "iterating" /\ queue = <<>>
    /\ cons' = [cons EXCEPT !.st = "cancelled"]
    /\ UNCHANGED <<closed, tg, can_use_tool, reader, rpend, queue, nread, content_read,
                   dispatch, request_counter, req, pending_control_responses,
                   pending_control_results, streamer, source, tr, delivered, ncalls>>
    /\ clientUnchanged

\* ---------------------------------------------------------------- close
\* the history of close() calls after one more call: whether it called
\* __aexit__ (exited), what it did to the transport (t to t2), and what it
\* raised (error, None if nothing)
Closing(exited, t, t2, error) ==
    [closing EXCEPT
       !.calls = @ + 1,
       !.exits = @ + (IF exited THEN 1 ELSE 0),
       !.releases = @ + (IF t.process /\ ~t2.process THEN 1 ELSE 0),
       !.errors = Append(@, error)]

\* Query.close: set _closed, cancel the task group and wait for it, then close
\* the transport; a crashed task group re-raises from __aexit__ before
\* transport.close() is reached
Close ==
    /\ ~closed
    /\ closed' = TRUE
    /\ CASE tg = "active" ->
              /\ tg' = "exited"
              /\ tr' = TransportClose(tr)
              /\ closing' = Closing(TRUE, tr, tr', None)
         [] tg = "crashed" ->
              /\ tg' = "exited"
              /\ tr' = tr
              /\ closing' = Closing(TRUE, tr, tr', "ExceptionGroup")
         [] OTHER ->
              /\ tg' = tg
              /\ tr' = TransportClose(tr)
              /\ closing' = Closing(FALSE, tr, tr', None)
    /\ reader' = CancelledReader(reader)
    /\ rpend' = <<>>
    /\ dispatch' = CancelledDispatch(dispatch)
    /\ streamer' = CancelledStreamer(streamer)
    /\ UNCHANGED <<can_use_tool, queue, nread, content_read, request_counter, req,
                   pending_control_responses, pending_control_results, source, cons,
                   delivered, ncalls, client, rd, mcp, hooks>>

\* Query.close on an Engine that was closed before. Without a task group only
\* transport.close() is called again. With one, _tg is still set: the cancel
\* scope is cancelled again and __aexit__ is called on the exited task group
\* a second time; that call either raises (the cancel scope is not active any
\* more), and transport.close() is not reached, or returns
CloseAgain ==
    /\ closed
    /\ closing.calls < MaxClose
    /\ IF tg = "none"
       THEN /\ tr' = TransportClose(tr)
            /\ closing' = Closing(FALSE, tr, tr', None)
       ELSE \/ /\ tr' = tr
               /\ closing' = Closing(TRUE, tr, tr', "RuntimeError")
            \/ /\ tr' = TransportClose(tr)
               /\ closing' = Closing(TRUE, tr, tr', None)
    /\ UNCHANGED <<closed, tg, can_use_tool, reader, rpend, queue, nread, content_read,
                   dispatch, request_counter, req, pending_control_responses,
                   pending_control_results, streamer, source, cons, delivered, ncalls,
                   client, rd, mcp, hooks>>

\* ------------------------------------------------------- ClaudeSDKClient
\* ClaudeSDKClient.__init__: _query and _transport are None (0; otherwise the
\* number of the session they belong to). sessions: every transport and Engine
\* the client has created, with whether the subprocess runs (process), whether
\* the Engine's reader task runs (reader) and the lines the client's calls
\* wrote to it (written), whether its stdin takes writes (stdin), the state
\* of the Engine's task group (tg), how often the task group's __aexit__ was
\* called (exits) and how often transport.close() ended the subprocess
\* (closes), the prompt connect() was given (prompt) and the lines query()
\* wrote (lines). phase and last are history: the client's last
\* connect()/disconnect(), and its last call with its outcome (op, outcome,
\* the phase it was made in) next to the call before it (prev_*). scope:
\* whether the client is used as a context manager, and its block is entered
\* ("inside") or left. options: the permission settings of ClaudeCodeOptions.
\* last.prompt is the prompt of a connect() or one-shot query, last.before the
\* number of transports there were when the call was made, last.args the
\* arguments of a query() and the lines written before it
NoPermissionSettings == [can_use_tool |-> FALSE, permission_prompt_tool_name |-> None]

ClientIdle ==
    [query |-> 0, transport |-> 0, sessions |-> <<>>, phase |-> "new", ops |-> 0,
     scope |-> "none", options |-> NoPermissionSettings,
     last |-> [op |-> "none", outcome |-> "none", phase |-> "new", wrote |-> FALSE,
               prev_op |-> "none", prev_outcome |-> "none", prev_phase |-> "new",
               prompt |-> None, before |-> 0, args |-> <<>>]]

\* ClaudeSDKClient(options)
ClientMade(options) == [ClientIdle EXCEPT !.options = options]

NotConnected == "CLIConnectionError: Not connected. Call connect() first."
NotReady == "CLIConnectionError: ProcessTransport is not ready for writing"

\* a session whose connect() went through: subprocess and reader task run
LiveSession ==
    [process |-> TRUE, reader |-> TRUE, written |-> 0, stdin |-> TRUE,
     tg |-> "active", exits |-> 0, closes |-> 0, prompt |-> None, lines |-> <<>>]
\* a transport whose connect() raised: no subprocess, and no Engine was made
DeadTransport ==
    [process |-> FALSE, reader |-> FALSE, written |-> 0, stdin |-> FALSE,
     tg |-> "none", exits |-> 0, closes |-> 0, prompt |-> None, lines |-> <<>>]

\* the record of one call of the client
Called(op, outcome, wrote) ==
    [op |-> op, outcome |-> outcome, phase |-> client.phase, wrote |-> wrote,
     prev_op |-> client.last.op, prev_outcome |-> client.last.outcome,
     prev_phase |-> client.last.phase,
     prompt |-> None, before |-> Len(client.sessions), args |-> <<>>]

\* every action of the client counts as one call and leaves the Engine alone
ClientCall ==
    /\ client.ops < MaxClientOps
    /\ UNCHANGED engineVars

\* connect() runs through: a new transport and a new Engine replace the ones
\* the client points to; nothing is done to the ones it pointed to before
Connect ==
    /\ ClientCall
    /\ LET n == Len(client.sessions) + 1 IN
       client' = [client EXCEPT !.sessions = Append(@, LiveSession),
                                !.transport = n, !.query = n,
                                !.phase = "connected", !.ops = @ + 1,
                                !.last = Called("connect", "ok", FALSE)]

\* the permission settings a client or a one-shot query may be given, and the
\* prompts: none, a string, or an asynchronous source
PermissionSettings ==
    [can_use_tool : BOOLEAN, permission_prompt_tool_name : {None, "mcp__approve"}]
Prompts == {None, "string", "stream"}

StreamingModeRequired ==
    "ValueError: can_use_tool callback requires streaming mode."
MutuallyExclusive ==
    "ValueError: can_use_tool callback cannot be used with permission_prompt_tool_name."

\* a faulty validation, to test C14 against: it lets a permission-prompt tool
\* name pass next to the callback
ValidatePermissionSettingsLax(options, prompt) ==
    IF options.can_use_tool /\ prompt = "string" THEN StreamingModeRequired
    ELSE None

\* the validation at the head of connect() and of process_query(): the error
\* raised, or None
ValidatePermissionSettings(options, prompt) ==
    IF options.can_use_tool
    THEN IF prompt = "string" THEN StreamingModeRequired
         ELSE IF options.permission_prompt_tool_name # None THEN MutuallyExclusive
         ELSE None
    ELSE None

\* connect(prompt) of a client with permission settings: the settings are
\* validated, and only then the transport is made and connected and the
\* Engine made, started and initialized. A transport made with a string
\* prompt closes stdin in its connect(), so that initialize() cannot write
\* its request and connect() raises with the subprocess and the reader task
\* running
ConnectWith ==
    /\ ClientCall
    /\ \E prompt \in Prompts :
         LET error == ValidatePermissionSettings(client.options, prompt)
             n == Len(client.sessions) + 1
         IN  IF error # None
             THEN client' = [client EXCEPT
                               !.ops = @ + 1,
                               !.last = [Called("connect", error, FALSE)
                                           EXCEPT !.prompt = prompt]]
             ELSE IF prompt = "string"
             THEN client' = [client EXCEPT
                               !.sessions = Append(@, [LiveSession EXCEPT
                                                         !.prompt = prompt,
                                                         !.stdin = FALSE]),
                               !.transport = n, !.query = n,
                               !.phase = "connect_failed", !.ops = @ + 1,
                               !.last = [Called("connect", NotReady, FALSE)
                                           EXCEPT !.prompt = prompt]]
             ELSE client' = [client EXCEPT
                               !.sessions = Append(@, [LiveSession EXCEPT
                                                         !.prompt = prompt]),
                               !.transport = n, !.query = n,
                               !.phase = "connected", !.ops = @ + 1,
                               !.last = [Called("connect", "ok", FALSE)
                                           EXCEPT !.prompt = prompt]]

\* a transport and Engine that a one-shot query has used and closed
UsedSession ==
    [process |-> FALSE, reader |-> FALSE, written |-> 0, stdin |-> FALSE,
     tg |-> "exited", exits |-> 1, closes |-> 1, prompt |-> None, lines |-> <<>>]

\* InternalClient.process_query(prompt, options), iterated to its end: the
\* settings are validated, and only then the transport is made (or the given
\* one taken) and connected, the Engine made and started, and both closed at
\* the end. sessions counts this transport too
ProcessQuery ==
    /\ ClientCall
    /\ \E prompt \in Prompts \ {None} :
         LET error == ValidatePermissionSettings(client.options, prompt) IN
         IF error # None
         THEN client' = [client EXCEPT
                           !.ops = @ + 1,
                           !.last = [Called("process_query", error, FALSE)
                                       EXCEPT !.prompt = prompt]]
         ELSE client' = [client EXCEPT
                           !.sessions = Append(@, UsedSession),
                           !.ops = @ + 1,
                           !.last = [Called("process_query", "ok", FALSE)
                                       EXCEPT !.prompt = prompt]]

\* connect() raises in transport.connect() (CLI not found): _transport is the
\* new transport already, _query is what it was
ConnectNoCLI ==
    /\ ClientCall
    /\ LET n == Len(client.sessions) + 1 IN
       client' = [client EXCEPT !.sessions = Append(@, DeadTransport),
                                !.transport = n,
                                !.phase = "connect_failed", !.ops = @ + 1,
                                !.last = Called("connect", "CLINotFoundError", FALSE)]

\* connect() raises in initialize() (no answer from the CLI): the transport is
\* connected and the Engine started, and both stay
ConnectNoInitialize ==
    /\ ClientCall
    /\ LET n == Len(client.sessions) + 1 IN
       client' = [client EXCEPT !.sessions = Append(@, LiveSession),
                                !.transport = n, !.query = n,
                                !.phase = "connect_failed", !.ops = @ + 1,
                                !.last = Called("connect", "Control request timeout", FALSE)]

\* SubprocessCLITransport.close() on the transport of session s: a running
\* subprocess is ended, and a transport that has none returns at once
SessionTransportClose(s) ==
    [s EXCEPT !.process = FALSE, !.stdin = FALSE,
              !.closes = IF s.process THEN @ + 1 ELSE @]

\* Query.close() on the Engine of session s, as the outcomes it can have: the
\* task group is cancelled and its __aexit__ awaited, then the transport is
\* closed. The __aexit__ of a crashed task group re-raises the failure of its
\* task, and transport.close() is not reached. _tg is never reset, so a later
\* close() calls __aexit__ on the exited task group again: that call returns
\* or raises, as the task group's implementation has it
CloseResults(s) ==
    CASE s.tg = "active" ->
           {[session |-> SessionTransportClose(
                            [s EXCEPT !.tg = "exited", !.exits = @ + 1,
                                      !.reader = FALSE]),
             outcome |-> "ok"]}
      [] s.tg = "crashed" ->
           {[session |-> [s EXCEPT !.tg = "exited", !.exits = @ + 1],
             outcome |-> "ExceptionGroup"]}
      [] s.tg = "exited" ->
           {[session |-> SessionTransportClose([s EXCEPT !.exits = @ + 1]),
             outcome |-> "ok"],
            [session |-> [s EXCEPT !.exits = @ + 1],
             outcome |-> "RuntimeError"]}
      [] OTHER ->
           {[session |-> SessionTransportClose(s), outcome |-> "ok"]}

\* the client after disconnect(), called as op: the Engine is closed if there
\* is one, then _query and _transport are dropped and the call ends as
\* ending; when close() raises, both stay as they are and the call raises
\* what close() raised
Disconnected(op, ending) ==
    IF client.query = 0
    THEN {[client EXCEPT
              !.transport = 0,
              !.phase = IF @ = "new" THEN "new" ELSE "disconnected",
              !.ops = @ + 1,
              !.last = Called(op, ending, FALSE)]}
    ELSE {IF r.outcome = "ok"
          THEN [client EXCEPT
                  !.sessions[client.query] = r.session,
                  !.query = 0,
                  !.transport = 0,
                  !.phase = "disconnected",
                  !.ops = @ + 1,
                  !.last = Called(op, ending, FALSE)]
          ELSE [client EXCEPT
                  !.sessions[client.query] = r.session,
                  !.ops = @ + 1,
                  !.last = Called(op, r.outcome, FALSE)]
          : r \in CloseResults(client.sessions[client.query])}

\* a faulty disconnect(), to test C9 against: it closes the Engine and keeps
\* _query and _transport
DisconnectKeeping ==
    /\ ClientCall
    /\ \E c \in Disconnected("disconnect", "ok") :
         client' = [c EXCEPT !.query = client.query,
                             !.transport = client.transport,
                             !.phase = IF c.last.outcome = "ok" /\ client.phase # "new"
                                      THEN "disconnected" ELSE client.phase]

\* disconnect()
Disconnect ==
    /\ ClientCall
    /\ client' \in Disconnected("disconnect", "ok")

\* __aenter__ of a new client: connect() without a prompt, which runs through
AEnter ==
    /\ ClientCall
    /\ client.scope = "none" /\ client.phase = "new"
    /\ client' = [client EXCEPT !.sessions = Append(@, LiveSession),
                                !.transport = 1, !.query = 1,
                                !.phase = "connected", !.ops = @ + 1,
                                !.scope = "inside",
                                !.last = Called("__aenter__", "ok", FALSE)]

\* what the block of the context manager ends with: its end, or an exception
BodyEndings == {"ok", "ValueError"}

\* __aexit__: the block is left, having ended or raised; disconnect() is
\* called and False returned, so that what the block raised goes on, unless
\* disconnect() itself raises
AExit ==
    /\ ClientCall
    /\ client.scope = "inside"
    /\ \E ending \in BodyEndings :
         \E c \in Disconnected("__aexit__", ending) :
            client' = [c EXCEPT !.scope = "left"]

\* a dispatch task of the client's Engine cannot write its response (the
\* prompt stream has ended and closed stdin): the failure leaves the task, the
\* task group is cancelled and the reader task with it
SessionCrash ==
    /\ client.query # 0
    /\ client.sessions[client.query].tg = "active"
    /\ client.sessions[client.query].process
    /\ client' = [client EXCEPT
                    !.sessions[client.query] =
                        [@ EXCEPT !.tg = "crashed", !.stdin = FALSE,
                                  !.reader = FALSE]]
    /\ UNCHANGED engineVars

\* transport.write of session n raises
ClientWriteFails(n) == ~client.sessions[n].process \/ ~client.sessions[n].stdin

\* one line is written to the transport of session n
Written(sessions, n) == [sessions EXCEPT ![n] = [@ EXCEPT !.written = @ + 1]]

\* query(prompt) with a string prompt
ClientQuery ==
    /\ ClientCall
    /\ IF client.query = 0 \/ client.transport = 0
       THEN client' = [client EXCEPT !.ops = @ + 1,
                                     !.last = Called("query", NotConnected, FALSE)]
       ELSE IF ClientWriteFails(client.transport)
       THEN client' = [client EXCEPT !.ops = @ + 1,
                                     !.last = Called("query", NotReady, FALSE)]
       ELSE client' = [client EXCEPT !.sessions = Written(@, client.transport),
                                     !.ops = @ + 1,
                                     !.last = Called("query", "ok", TRUE)]

\* the messages an asynchronous source given to query() may yield: one
\* without a session ID and one that has its own
SourceMessages ==
    {[type |-> "user", content |-> "a"],
     [type |-> "user", content |-> "b", session_id |-> "theirs"]}

\* the sequences over S of length n, and of length up to n
RECURSIVE SeqsOfLen(_, _)
SeqsOfLen(S, n) ==
    IF n = 0 THEN {<<>>}
    ELSE {Append(q, x) : q \in SeqsOfLen(S, n - 1), x \in S}
SeqsUpTo(S, n) == UNION {SeqsOfLen(S, k) : k \in 0..n}

\* the prompts of query(): a string, or an asynchronous source with what it
\* yields; and the session IDs ("default" when the caller gives none)
QueryPrompts ==
    {[text |-> "hello"]}
    \cup {[source |-> q] : q \in SeqsUpTo(SourceMessages, MaxQuerySource)}
SessionIds == {"default", "mine"}

\* the user message query() makes of a string prompt
UserMessage(text, session_id) ==
    [type |-> "user", content |-> text, parent_tool_use_id |-> None,
     session_id |-> session_id]

\* query() on one message of the source: the session ID is set if the
\* message has none
EnsureSessionId(msg, session_id) ==
    IF "session_id" \notin DOMAIN msg
    THEN [k \in DOMAIN msg \cup {"session_id"} |->
            IF k = "session_id" THEN session_id ELSE msg[k]]
    ELSE msg

\* the lines query(prompt, session_id) writes if every write goes through
QueryLines(prompt, session_id) ==
    IF "text" \in DOMAIN prompt
    THEN <<UserMessage(prompt.text, session_id)>>
    ELSE [i \in DOMAIN prompt.source |-> EnsureSessionId(prompt.source[i], session_id)]

\* query(prompt, session_id): the lines are written one after the other to
\* _transport, and the call returns; the first write that the transport
\* refuses raises. Neither the Engine's queue nor its pending tables are
\* touched
QueryWith ==
    /\ ClientCall
    /\ \E prompt \in QueryPrompts, session_id \in SessionIds :
         LET args == <<prompt, session_id>> IN
         IF client.query = 0 \/ client.transport = 0
         THEN client' = [client EXCEPT
                           !.ops = @ + 1,
                           !.last = [Called("query", NotConnected, FALSE)
                                       EXCEPT !.args = args]]
         ELSE LET lines == QueryLines(prompt, session_id)
                  before == client.sessions[client.transport].lines
              IN  IF lines # <<>> /\ ClientWriteFails(client.transport)
                  THEN client' = [client EXCEPT
                                    !.ops = @ + 1,
                                    !.last = [Called("query", NotReady, FALSE)
                                                EXCEPT !.args = Append(args, before)]]
                  ELSE client' = [client EXCEPT
                                    !.sessions[client.transport] =
                                        [@ EXCEPT !.lines = @ \o lines,
                                                  !.written = @ + Len(lines)],
                                    !.ops = @ + 1,
                                    !.last = [Called("query", "ok", lines # <<>>)
                                                EXCEPT !.args = Append(args, before)]]

\* the asynchronous source given to connect() is exhausted: stream_input,
\* running in the Engine's task group, calls end_input() and stdin is closed
StreamInputEnds ==
    /\ client.query # 0
    /\ LET s == client.sessions[client.query] IN
       /\ s.prompt = "stream" /\ s.stdin /\ s.tg = "active"
       /\ client' = [client EXCEPT !.sessions[client.query] =
                                      [s EXCEPT !.stdin = FALSE]]
    /\ UNCHANGED engineVars

\* interrupt(): the Engine of _query writes the control request to its own
\* transport
ClientInterrupt ==
    /\ ClientCall
    /\ IF client.query = 0
       THEN client' = [client EXCEPT !.ops = @ + 1,
                                     !.last = Called("interrupt", NotConnected, FALSE)]
       ELSE IF ClientWriteFails(client.query)
       THEN client' = [client EXCEPT !.ops = @ + 1,
                                     !.last = Called("interrupt", NotReady, FALSE)]
       ELSE client' = [client EXCEPT !.sessions = Written(@, client.query),
                                     !.ops = @ + 1,
                                     !.last = Called("interrupt", "sent", TRUE)]

\* receive_messages() or receive_response() is iterated
ClientReceive ==
    /\ ClientCall
    /\ \E op \in {"receive_messages", "receive_response"} :
         IF client.query = 0
         THEN client' = [client EXCEPT !.ops = @ + 1,
                                       !.last = Called(op, NotConnected, FALSE)]
         ELSE client' = [client EXCEPT !.ops = @ + 1,
                                       !.last = Called(op, "iterating", FALSE)]

\* ----------------------------------------------------------------- Spec

\* what the CLI and the transport do to the content stream
Environment ==
    \/ ReadContentObject
    \/ ReadCancelObject
    \/ ProcExit
    \/ ReaderEOF
    \/ ReaderDecodeError
    \/ ReaderSend

\* the caller consumes the content stream, and closes
Caller ==
    \/ StartReceive
    \/ ConsumerNext
    \/ ReceiveCancelled
    \/ Close

\* Spec: the content stream of a session without a prompt stream, with control
\* objects of every type interleaved on the wire
Init == EngineInit({TRUE}, {NoPrompt}, FALSE) /\ client = ClientIdle /\ rd = NoRead /\ mcp = <<>> /\ hooks = OneHook

Next ==
    \/ Environment
    \/ Caller
    \/ ReadStrayObject
    \/ ReadUnsupportedRequest
    \/ DispatchFinish

Spec == Init /\ [][Next]_vars

\* DispatchSpec: inbound control requests and their dispatch tasks, in a
\* session whose prompt stream ends, whose process may exit and which may be
\* closed
DispatchInit == EngineInit(BOOLEAN, 0..MaxSource, FALSE) /\ client = ClientIdle /\ rd = NoRead /\ mcp = <<>> /\ hooks = OneHook

DispatchNext ==
    \/ ReadRequestObject
    \/ DispatchFinish
    \/ StreamWrite
    \/ StreamEndInput
    \/ ProcExit
    \/ ReaderEOF
    \/ Close

DispatchSpec == DispatchInit /\ [][DispatchNext]_vars

\* StreamSpec: stream_input over prompt streams of several messages, next to
\* the reader and the consumer, on a process that may exit and an Engine that
\* may be closed
StreamInit ==
    EngineInit({FALSE}, 0..MaxStream, TRUE) /\ client = ClientIdle /\ rd = NoRead /\ mcp = <<>> /\ hooks = OneHook

StreamNext ==
    \/ StreamWrite
    \/ StreamEndInput
    \/ ReadContentObject
    \/ ConsumerNext
    \/ ProcExit
    \/ ReaderEOF
    \/ Close

StreamSpec == StreamInit /\ [][StreamNext]_vars

\* HookSpec: initialize() on Engines with different hook settings, and the
\* hook_callback requests of the CLI
\* the hook settings (self.hooks), each a dict from the event to its matchers:
\* none; an event without matchers; one matcher with one callback; two
\* matchers with two callbacks each, one without a pattern; matchers that lack
\* their "hooks" or their "matcher" key; the same callback twice and a second
\* event; a matcher without callbacks
HookSettings ==
    { <<>>,
      <<[event |-> "PreToolUse", matchers |-> <<>>]>>,
      <<[event |-> "PreToolUse",
         matchers |-> <<[matcher |-> "Bash", hooks |-> <<"check_bash">>]>>]>>,
      <<[event |-> "PreToolUse",
         matchers |-> <<[matcher |-> None, hooks |-> <<"check_bash", "audit">>],
                        [matcher |-> "Bash", hooks |-> <<"audit", "check_bash">>]>>]>>,
      <<[event |-> "PreToolUse",
         matchers |-> <<[matcher |-> "Write"], [hooks |-> <<"audit">>]>>]>>,
      <<[event |-> "PreToolUse",
         matchers |-> <<[matcher |-> "Bash", hooks |-> <<"audit", "audit">>]>>],
        [event |-> "PostToolUse",
         matchers |-> <<[matcher |-> None, hooks |-> <<"audit">>]>>]>>,
      <<[event |-> "PreToolUse", matchers |-> <<>>],
        [event |-> "PostToolUse",
         matchers |-> <<[matcher |-> "Bash", hooks |-> <<>>]>>]>> }

HookInit ==
    /\ EngineInit({FALSE}, {NoPrompt}, FALSE) /\ client = ClientIdle
    /\ rd = NoRead /\ mcp = <<>>
    /\ \E h \in HookSettings : hooks = HooksMade(h)

HookNext ==
    \/ Initialize
    \/ ReadHookCallback
    \/ DispatchFinish

HookSpec == HookInit /\ [][HookNext]_vars

\* OneShotSpec: InternalClient.process_query with an asynchronous prompt,
\* iterated by its caller until it ends, from the point where the transport is
\* connected and the Engine started
OneShotInit ==
    /\ EngineInit(BOOLEAN, {NoPrompt}, FALSE) /\ client = ClientIdle
    /\ rd = NoRead /\ mcp = <<>>
    /\ hooks = HooksMade(OneHookSettings)

\* process_query: 'await query.initialize()'
QueryInitialize ==
    /\ ~closed /\ cons.st = "idle" /\ request_counter = 0
    /\ Initialize

\* initialize() has returned, or it has raised
InitializeReturned == request_counter = 1 /\ req[1].st = "ok"
InitializeRaised ==
    request_counter = 1 /\ req[1].st \in {"error", "timeout", "write_failed"}

\* process_query after initialize(): stream_input is started on the prompt in
\* the task group, and receive_messages() is iterated
QueryReceive ==
    /\ ~closed /\ cons.st = "idle" /\ InitializeReturned
    /\ tg = "active"
    /\ streamer' = "running"
    /\ \E n \in 0..MaxSource : source' = SourceOf(n)
    /\ cons' = [st |-> "iterating", mode |-> "messages", start |-> 0, error |-> None,
                raised |-> None]
    /\ ncalls' = ncalls + 1
    /\ UNCHANGED <<closed, tg, can_use_tool, reader, rpend, queue, nread, content_read,
                   dispatch, request_counter, req, pending_control_responses,
                   pending_control_results, tr, delivered>>
    /\ clientUnchanged

\* the body of process_query's try has ended: the content stream ended or
\* raised, the iteration was cancelled, or initialize() raised
QueryFinished ==
    \/ cons.st \in {"ended", "failed", "cancelled"}
    \/ cons.st = "idle" /\ InitializeRaised

\* process_query: 'finally: await query.close()'
QueryClose == QueryFinished /\ Close

OneShotNext ==
    \/ QueryInitialize
    \/ ReadResponseObject
    \/ RequestResolved
    \/ RequestTimeout
    \/ QueryReceive
    \/ StreamWrite
    \/ StreamEndInput
    \/ ReadContentObject
    \/ ReadPermissionRequest
    \/ DispatchFinish
    \/ ConsumerNext
    \/ ReceiveCancelled
    \/ ProcExit
    \/ ReaderEOF
    \/ ReaderDecodeError
    \/ QueryClose

OneShotSpec == OneShotInit /\ [][OneShotNext]_vars

\* ControlSpec: concurrent interrupt() calls, their responses and timeouts,
\* next to the content stream
ControlInit == EngineInit({FALSE}, {NoPrompt}, TRUE) /\ client = ClientIdle /\ rd = NoRead /\ mcp = <<>> /\ hooks = OneHook

ControlNext ==
    \/ Interrupt
    \/ ReadResponseObject
    \/ RequestResolved
    \/ RequestTimeout
    \/ ReadAssistantObject
    \/ ConsumerNext

ControlSpec == ControlInit /\ [][ControlNext]_vars

\* the caller's first control call is an interrupt
InterruptOnce == request_counter = 0 /\ Interrupt

\* ConcurrentSpec: a session with a permission callback whose caller consumes
\* the stream and sends one interrupt while the CLI asks for permissions
ConcurrentInit ==
    EngineInit({TRUE}, {NoPrompt}, TRUE) /\ client = ClientIdle /\ rd = NoRead /\ mcp = <<>> /\ hooks = OneHook

ConcurrentNext ==
    \/ ReadPermissionRequest
    \/ DispatchFinish
    \/ ReadAssistantObject
    \/ ConsumerNext
    \/ InterruptOnce
    \/ ReadResponseObject
    \/ RequestResolved

ConcurrentSpec == ConcurrentInit /\ [][ConcurrentNext]_vars

\* RoutingSpec: objects of every type on the wire of a session whose caller
\* consumes the stream and sends one interrupt, which may time out
RoutingInit ==
    EngineInit({TRUE}, {NoPrompt}, TRUE) /\ client = ClientIdle /\ rd = NoRead /\ mcp = <<>> /\ hooks = OneHook

RoutingNext ==
    \/ ReadContentObject
    \/ ReadResponseObject
    \/ ReadStrayObject
    \/ ReadPermissionRequest
    \/ ReadCancelObject
    \/ InterruptOnce
    \/ RequestResolved
    \/ RequestTimeout
    \/ ConsumerNext

RoutingSpec == RoutingInit /\ [][RoutingNext]_vars

\* CorrelationSpec: concurrent interrupt() calls whose responses arrive in any
\* order, late, twice or with an ID that was never issued
CorrelationNext ==
    \/ Interrupt
    \/ ReadResponseObject
    \/ ReadStrayObject
    \/ RequestResolved
    \/ RequestTimeout

CorrelationSpec == ControlInit /\ [][CorrelationNext]_vars

\* RequestSpec: the control calls of one caller, made one after the other,
\* over a transport that may stop taking writes: the process may exit, and a
\* prompt stream (if the session has one) ends with end_input()
RequestInit == EngineInit({FALSE}, {NoPrompt, 0}, TRUE) /\ client = ClientIdle /\ rd = NoRead /\ mcp = <<>> /\ hooks = OneHook

RequestNext ==
    \/ NextControlCall
    \/ ReadResponseObject
    \/ RequestResolved
    \/ RequestTimeout
    \/ ProcExit
    \/ StreamEndInput

RequestSpec == RequestInit /\ [][RequestNext]_vars

\* CloseSpec: an Engine that is started or not, reads inbound control
\* requests over a transport whose process may exit, and is closed, and
\* closed again
CloseInit == EngineMade(BOOLEAN, {NoPrompt}, FALSE, FALSE) /\ client = ClientIdle /\ rd = NoRead /\ mcp = <<>> /\ hooks = OneHook

CloseNext ==
    \/ Start
    \/ ReadRequestObject
    \/ DispatchFinish
    \/ ProcExit
    \/ Close
    \/ CloseAgain

CloseSpec == CloseInit /\ [][CloseNext]_vars

\* ConnectSpec: a client made with permission settings, connected with a
\* prompt and disconnected, next to one-shot queries with the same settings
ConnectInit ==
    /\ EngineInit({FALSE}, {NoPrompt}, FALSE)
    /\ client \in {ClientMade(options) : options \in PermissionSettings}
    /\ rd = NoRead /\ mcp = <<>> /\ hooks = OneHook

ConnectNext ==
    \/ ConnectWith
    \/ ProcessQuery
    \/ Disconnect
    \/ ClientQuery

ConnectSpec == ConnectInit /\ [][ConnectNext]_vars

\* FailureSpec: the failures a caller can see: concurrent interrupt() calls
\* answered with success or error or timing out, and a content stream that
\* ends with a decode error or with the exit of the process
FailureNext ==
    \/ Interrupt
    \/ ReadResponseObject
    \/ RequestResolved
    \/ RequestTimeout
    \/ ProcExit
    \/ ReaderEOF
    \/ ReaderDecodeError
    \/ ConsumerNext

FailureSpec == ControlInit /\ [][FailureNext]_vars

\* QuerySpec: a client connected without a prompt or with an asynchronous
\* source that may end, on which query() is called with a string or a source
QueryInit == EngineInit({FALSE}, {NoPrompt}, FALSE) /\ client = ClientIdle /\ rd = NoRead /\ mcp = <<>> /\ hooks = OneHook

QueryNext ==
    \/ ConnectWith
    \/ StreamInputEnds
    \/ QueryWith
    \/ Disconnect

QuerySpec == QueryInit /\ [][QueryNext]_vars

\* ReadSpec: read_messages() of the transport on a wire of complete and
\* unterminated JSON texts, delivered in chunks cut at any position
ReadInit ==
    /\ EngineInit({FALSE}, {NoPrompt}, FALSE) /\ client = ClientIdle
    /\ rd \in ReadStarts /\ mcp = <<>> /\ hooks = OneHook

ReadNext ==
    \/ ReadChunk
    \/ ReadEnd

ReadSpec == ReadInit /\ [][ReadNext]_vars

\* DecodeSpec: read_messages() on a wire that holds lines that are not JSON
\* next to complete JSON texts
DecodeInit ==
    /\ EngineInit({FALSE}, {NoPrompt}, FALSE) /\ client = ClientIdle
    /\ rd \in ReadStartsOf(Objects \cup Malformed) /\ mcp = <<>> /\ hooks = OneHook

DecodeSpec == DecodeInit /\ [][ReadNext]_vars

\* BridgeSpec: the JSONRPC messages of the CLI to the in-process tool bridge,
\* one after the other
BridgeInit ==
    /\ EngineInit({FALSE}, {NoPrompt}, FALSE) /\ client = ClientIdle
    /\ rd = NoRead /\ mcp = <<>> /\ hooks = OneHook

BridgeNext == McpCall

BridgeSpec == BridgeInit /\ [][BridgeNext]_vars

\* ClientSpec: the calls made on one ClaudeSDKClient
ClientInit == EngineInit({FALSE}, {NoPrompt}, FALSE) /\ client = ClientIdle /\ rd = NoRead /\ mcp = <<>> /\ hooks = OneHook

ClientNext ==
    \/ Connect
    \/ ConnectNoCLI
    \/ ConnectNoInitialize
    \/ Disconnect
    \/ AEnter
    \/ AExit
    \/ SessionCrash
    \/ ClientQuery
    \/ ClientInterrupt
    \/ ClientReceive

ClientSpec == ClientInit /\ [][ClientNext]_vars

\* =========================================================== properties
\* s is an initial segment of t
IsPrefix(s, t) == Len(s) <= Len(t) /\ SubSeq(t, 1, Len(s)) = s

\* the content messages among the items of a sequence of queue items
IsContent(item) == item.type \notin {"end", "error"}
ContentOf(items) == SelectSeq(items, IsContent)

\* the raw content objects that a sequence of typed messages was made from
Raw(messages) == [i \in 1..Len(messages) |-> messages[i].data]

\* the content the reader has read and the caller has not yet been given
InTransit == ContentOf(queue \o rpend)

\* ------------------------------------------------------------------- C1
\* C1: whatever control objects are interleaved on the wire, the messages
\* yielded to the caller are always an initial segment of the content messages
\* the transport produced, in the transport's order; and while the reader has
\* not been cancelled and the Engine is not closed, every content message read
\* is either yielded already or still in transit to the caller, in that order:
\* none is lost, duplicated or reordered.
C1_ContentOrder ==
    /\ IsPrefix(Raw(delivered), content_read)
    /\ (reader # "cancelled" /\ ~closed) =>
          content_read = Raw(delivered) \o InTransit

\* two content messages and a control request were read, the reader ended
\* normally and the caller has iterated to the end of the stream
C1_Witness ==
    /\ cons.st = "ended" /\ cons.mode = "messages"
    /\ Len(delivered) = 2 /\ nread = 3
    /\ dispatch[1].st # "free"
    /\ reader = "done" /\ ~closed

\* ------------------------------------------------------------------- C4
\* the texts of the failures of the reader loop
ReaderErrors == {DecodeErrorText, ProcessErrorText}

\* C4: when the reader loop fails (decode error, or non-zero exit seen at end
\* of stream), the error is the last thing before the end sentinel in what the
\* reader sends; a consumer that has failed received that error after every
\* content message read before it, in order, and no content can follow (nothing
\* is in transit and the reader reads no more); and a consumer's first call does
\* not see a normal end of a stream whose process failed.
C4_ErrorIsFinal ==
    /\ LET sent == queue \o rpend IN
       \A i \in 1..Len(sent) :
           sent[i].type = "error" =>
               /\ sent[i].error \in ReaderErrors
               /\ \A j \in (i + 1)..Len(sent) : sent[j].type = "end"
    /\ cons.st = "failed" =>
          /\ cons.error \in ReaderErrors
          /\ cons.error = ProcessErrorText => tr.returncode = "1" \/ closed
          /\ Raw(delivered) = content_read
          /\ InTransit = <<>>
          /\ reader \notin {"running"}
    /\ (tr.exit_error /\ ncalls = 1) => cons.st # "ended"

\* the process exited with code 1 after two content messages; the consumer got
\* both and then failed with the process error
C4_Witness ==
    /\ cons.st = "failed" /\ cons.error = ProcessErrorText
    /\ Len(delivered) = 2 /\ Raw(delivered) = content_read
    /\ tr.exit_error

\* ------------------------------------------------------------------- C8
\* the messages the caller's current call has yielded
CallYield == SubSeq(delivered, cons.start + 1, Len(delivered))

\* C8: a receive_response() call yields the messages of the content stream
\* from where it began, in order; a ResultMessage can only be the last message
\* it yielded, and it has returned exactly when its last yield is a
\* ResultMessage: nothing after the first ResultMessage is yielded by the call.
C8_ResponseStopsAtResult ==
    cons.mode = "response" =>
        /\ Raw(CallYield) = SubSeq(content_read, cons.start + 1, Len(delivered))
        /\ \A i \in 1..Len(CallYield) :
               CallYield[i].kind = "ResultMessage" => i = Len(CallYield)
        /\ cons.st = "returned" <=>
               (CallYield # <<>> /\ CallYield[Len(CallYield)].kind = "ResultMessage")

\* a receive_response() call yielded an assistant message and a result and
\* returned, while a further content message waits in the buffer
C8_Witness ==
    /\ cons.mode = "response" /\ cons.st = "returned"
    /\ Len(CallYield) = 2
    /\ CallYield[1].kind = "AssistantMessage"
    /\ CallYield[2].kind = "ResultMessage"
    /\ InTransit # <<>>

\* ------------------------------------------------------------------- C2
\* the dispatch tasks that ran to their end (not cancelled from outside)
Ended == {k \in DOMAIN dispatch : dispatch[k].st \in {"done", "crashed"}}

\* the process is running and nobody has closed the Engine
SessionLive == tr.process /\ tr.returncode = None /\ ~closed

\* C2: in a live session, every inbound control request whose handler task has
\* ended had exactly one control_response line written, carrying its
\* correlation ID. (Violated: after stream_input has called end_input(), both
\* writes of the handler raise and no line is written.)
C2_ExactlyOneResponse ==
    SessionLive =>
        \A k \in Ended :
            /\ Len(dispatch[k].lines) = 1
            /\ dispatch[k].lines[1].type = "control_response"
            /\ dispatch[k].lines[1].response.request_id = dispatch[k].request.request_id

\* ------------------------------------------------------------------- C6
\* the handling of the request of dispatch k fails
HandlingFails(k) == ~HandleControlRequest(dispatch[k].request.request, dispatch[k].cb).ok

\* C6: in a live session, an inbound control request whose handling failed is
\* answered with a control response of subtype error carrying its correlation
\* ID and the error text, and the reader loop and the other dispatches are not
\* terminated by it. (Violated: after end_input() the error response cannot be
\* written, the exception leaves the task and cancels the task group.)
C6_FailureAnswered ==
    SessionLive =>
        \A k \in Ended :
            HandlingFails(k) =>
                /\ Len(dispatch[k].lines) = 1
                /\ dispatch[k].lines[1].response.subtype = "error"
                /\ dispatch[k].lines[1].response.request_id = dispatch[k].request.request_id
                /\ dispatch[k].lines[1].response.error =
                       HandleControlRequest(dispatch[k].request.request, dispatch[k].cb).error
                /\ reader # "cancelled"
                /\ \A j \in DOMAIN dispatch : dispatch[j].st # "cancelled"

\* ------------------------------------------------------------------- C7
\* the dispatches of can_use_tool requests whose response was written
PermissionAnswered ==
    {k \in DOMAIN dispatch :
        /\ dispatch[k].st = "done"
        /\ dispatch[k].request.request.subtype = "can_use_tool"
        /\ can_use_tool}

\* C7: with a permission callback registered, the response written for a
\* can_use_tool request is success {allow: true} when the callback allowed
\* without a replacement input, success {allow: true, input: <replacement>}
\* when it allowed with one, success {allow: false, reason: <message>} when it
\* denied, and an error response for any other return value (or a raise); the
\* response always carries the request's correlation ID.
C7_PermissionMapping ==
    \A k \in PermissionAnswered :
        LET cb == dispatch[k].cb
            response == dispatch[k].lines[1].response
        IN  /\ Len(dispatch[k].lines) = 1
            /\ dispatch[k].lines[1].type = "control_response"
            /\ response.request_id = dispatch[k].request.request_id
            /\ CASE cb.kind = "allow" /\ cb.updated_input = None ->
                      /\ response.subtype = "success"
                      /\ response.response = [allow |-> TRUE]
                 [] cb.kind = "allow" /\ cb.updated_input # None ->
                      /\ response.subtype = "success"
                      /\ response.response = [allow |-> TRUE, input |-> cb.updated_input]
                 [] cb.kind = "deny" ->
                      /\ response.subtype = "success"
                      /\ response.response = [allow |-> FALSE, reason |-> cb.message]
                 [] OTHER ->
                      /\ response.subtype = "error"
                      /\ "response" \notin DOMAIN response

\* two can_use_tool requests were answered: one allowed with a replacement
\* input, one whose callback returned something that is no PermissionResult
C7_Witness ==
    /\ \E k \in PermissionAnswered :
          /\ dispatch[k].cb.kind = "allow"
          /\ dispatch[k].cb.updated_input = "replacement"
    /\ \E k \in PermissionAnswered : dispatch[k].cb.kind = "other"

\* ------------------------------------------------------------------- C3
\* what the reader stores for the responses the CLI may send to request i
OwnResults(i) == {StoredResult(m.response) : m \in ControlResponses(i)}

\* C3: a request that gets no response ends in a timeout error naming its
\* subtype, and its timeout touches nothing else: (a) every other request that
\* is waiting keeps its entry in the pending tables, an entry that is set holds
\* the response sent to that very request, and a request that got a response
\* ended with that response; (b) the content stream is intact: every content
\* message read is delivered or in transit, in order, and the reader runs.
C3_TimeoutIsolation ==
    /\ \A i \in 1..MaxReq :
          /\ req[i].st = "timeout" =>
                /\ req[i].result = <<"Control request timeout", req[i].subtype>>
                /\ req[i].got = None
                /\ ~IsPending(i)
          /\ req[i].st = "waiting" => IsPending(i)
          /\ pending_control_responses[i] = "set" =>
                /\ req[i].st = "waiting"
                /\ pending_control_results[i] \in OwnResults(i)
          /\ req[i].st \in {"ok", "error"} => req[i].got \in OwnResults(i)
    /\ reader = "running" /\ tg = "active"
    /\ Raw(delivered) \o InTransit = content_read

\* request 1 timed out while request 2 was in flight; request 2 then completed
\* with its response, request 3 was sent after the timeout and succeeded, and
\* a content message was delivered
C3_Witness ==
    /\ req[1].st = "timeout"
    /\ req[2].st = "ok" /\ 2 \in req[1].in_flight
    /\ req[3].st = "ok" /\ 3 \in req[1].unsent
    /\ Len(delivered) = 1

\* ------------------------------------------------------------------- C5
\* the calls of _send_control_request that have returned or raised
Completed == {i \in 1..MaxReq : req[i].st \notin {"idle", "waiting"}}

\* how a completed call ended, given the response stored for it
EndsAsSpecified(i) ==
    CASE req[i].st = "ok" ->
           /\ req[i].got \in OwnResults(i)
           /\ "exception" \notin DOMAIN req[i].got
           /\ req[i].result = IF "response" \in DOMAIN req[i].got
                              THEN req[i].got.response ELSE EmptyMap
      [] req[i].st = "error" ->
           /\ req[i].got = [exception |-> "remote error"]
           /\ req[i].result = "remote error"
      [] req[i].st = "timeout" ->
           /\ req[i].got = None
           /\ req[i].result = <<"Control request timeout", req[i].subtype>>
      [] OTHER -> FALSE

SessionCalls == {"query", "interrupt", "receive_messages", "receive_response"}

\* C9: on a client that is disconnected (no connect() since it was made, or
\* since its last disconnect()), query(), interrupt(), receive_messages() and
\* receive_response() fail with the not-connected error and write nothing;
\* disconnect() on a client that was never connected succeeds and leaves the
\* client as it was made.
C9_DisconnectedCallsFail ==
    /\ (client.last.phase \in {"new", "disconnected"}
            /\ client.last.op \in SessionCalls) =>
          /\ client.last.outcome = NotConnected
          /\ ~client.last.wrote
    /\ client.phase \in {"new", "disconnected"} =>
          /\ client.query = 0 /\ client.transport = 0
    /\ (client.last.phase = "new" /\ client.last.op = "disconnect") =>
          /\ client.last.outcome = "ok"
          /\ client.query = 0 /\ client.transport = 0
          /\ client.sessions = <<>> /\ client.phase = "new"

\* a client was connected, wrote a line, was disconnected, and its query()
\* then failed
C9_Witness ==
    /\ client.last.phase = "disconnected"
    /\ client.last.op = "query"
    /\ client.last.outcome = NotConnected
    /\ Len(client.sessions) = 1 /\ client.sessions[1].written = 1

\* ------------------------------------------------------------------ C10
\* the sessions of the client with a running reader task or subprocess
ActiveSessions ==
    {n \in 1..Len(client.sessions) :
        client.sessions[n].reader \/ client.sessions[n].process}

\* C10: after any sequence of connect() and disconnect() calls at most one
\* session of the client is active. (Violated: connect() on a connected client
\* starts a second session and leaves the first one's reader task and
\* subprocess running.)
C10_AtMostOneActive == Cardinality(ActiveSessions) <= 1

\* ------------------------------------------------------------------ C11
\* disconnect() was called twice in a row, the first time on a connected
\* client
DisconnectedTwice ==
    /\ client.last.op = "disconnect"
    /\ client.last.prev_op = "disconnect"
    /\ client.last.prev_phase = "connected"

\* C11: when disconnect() is called twice in a row on a connected client,
\* neither call raises, the Engine of the session is exited once and its
\* transport closed once, and the client is left disconnected. (Violated: on
\* a session whose task group has crashed, close() raises from the first
\* disconnect() before the transport is closed, _query stays set, and the
\* second disconnect() closes the same Engine again.)
C11_DisconnectTwice ==
    DisconnectedTwice =>
        LET s == client.sessions[Len(client.sessions)] IN
        /\ client.last.prev_outcome = "ok"
        /\ client.last.outcome = "ok"
        /\ s.exits = 1 /\ s.closes = 1
        /\ ~s.process /\ ~s.reader
        /\ client.query = 0 /\ client.transport = 0

\* ------------------------------------------------------------------ C12
\* C12: over any sequence of close() calls on one Engine, started or not, no
\* call raises, the task group is exited at most once and the transport's
\* subprocess is ended at most once. (Violated: _tg is never reset, so the
\* second close() exits the task group a second time.)
C12_CloseIdempotent ==
    /\ \A n \in DOMAIN closing.errors : closing.errors[n] = None
    /\ closing.exits <= 1
    /\ closing.releases <= 1

\* ------------------------------------------------------------------ C13
\* C13: when the block of a client used as a context manager has been left,
\* the Engine and the transport of every session of the client have been
\* closed exactly once and nothing of them runs, and what the block raised
\* (if anything) is what leaves the context manager. (Violated: on a session
\* whose task group has crashed, __aexit__ raises what close() raises, and
\* the transport is not closed.)
C13_ScopeDisconnects ==
    client.last.op = "__aexit__" =>
        /\ client.last.outcome \in BodyEndings
        /\ client.query = 0 /\ client.transport = 0
        /\ \A n \in DOMAIN client.sessions :
              LET s == client.sessions[n] IN
              s.tg # "none" =>
                  /\ ~s.process /\ ~s.reader
                  /\ s.tg = "exited" /\ s.exits = 1 /\ s.closes = 1

\* ------------------------------------------------------------------ C14
\* a connect() or one-shot query was made with a permission callback
\* configured and (a) a string prompt or (b) a permission-prompt tool name
BadPermissionCall ==
    /\ client.last.op \in {"connect", "process_query"}
    /\ client.options.can_use_tool
    /\ \/ client.last.prompt = "string"
       \/ client.options.permission_prompt_tool_name # None

\* C14: with a permission callback configured, connect() and the one-shot
\* query fail with one of the two descriptive errors if the prompt is a string
\* or a permission-prompt tool name is configured too; no transport has been
\* made, connected or written to by the call, and a client that was
\* disconnected is still disconnected.
C14_PermissionSettingsRejected ==
    BadPermissionCall =>
        /\ client.last.outcome \in {StreamingModeRequired, MutuallyExclusive}
        /\ Len(client.sessions) = client.last.before
        /\ ~client.last.wrote
        /\ client.last.phase \in {"new", "disconnected"} =>
               client.query = 0 /\ client.transport = 0

\* connect() with an asynchronous source was rejected for the tool name,
\* after a one-shot query with a string prompt was
C14_Witness ==
    /\ BadPermissionCall
    /\ client.last.op = "connect" /\ client.last.prompt = "stream"
    /\ client.last.outcome = MutuallyExclusive
    /\ client.last.prev_op = "process_query"
    /\ client.last.prev_outcome = StreamingModeRequired
    /\ client.sessions = <<>>

\* ------------------------------------------------------------------ C15
\* the failures the caller has observed: what went wrong (the reader's error
\* text, or how a control call ended) with the class of what was raised
ObservedFailures ==
    (IF cons.st = "failed"
     THEN {[cause |-> cons.error, kind |-> cons.raised]} ELSE {})
    \cup {[cause |-> req[i].st, kind |-> ControlRaises(req[i].st)] :
             i \in {j \in 1..MaxReq : req[j].st \in {"error", "timeout"}}}

\* C15: every failure the caller observes has a kind of its own: none is the
\* generic failure, and failures with different causes (decode error, process
\* exit, control-request timeout, remote control error) have different kinds.
\* (Violated: receive_messages() raises a plain Exception with the text of
\* whatever the reader caught, and _send_control_request raises a plain
\* Exception for a timeout and for a remote error.)
C15_FailureKindsKept ==
    /\ \A f \in ObservedFailures : f.kind # "Exception"
    /\ \A f, g \in ObservedFailures : f.cause # g.cause => f.kind # g.kind

\* ------------------------------------------------------------------ C16
\* C16: query(prompt, session_id) on a connected client returns, having
\* written to the session's transport exactly the user message with the
\* session ID for a string prompt, and for an asynchronous source one line
\* per message in source order, with the session ID added where the message
\* had none. (Violated: once the source given to connect() has ended and
\* closed stdin, query() writes nothing and raises.)
C16_QueryWrites ==
    (client.last.op = "query" /\ client.last.phase = "connected") =>
        LET prompt == client.last.args[1]
            session_id == client.last.args[2]
            before == client.last.args[3]
            lines == client.sessions[client.transport].lines
        IN  /\ client.last.outcome = "ok"
            /\ Len(lines) >= Len(before)
            /\ SubSeq(lines, 1, Len(before)) = before
            /\ LET new == SubSeq(lines, Len(before) + 1, Len(lines)) IN
               IF "text" \in DOMAIN prompt
               THEN /\ Len(new) = 1
                    /\ new[1].type = "user" /\ new[1].content = prompt.text
                    /\ new[1].session_id = session_id
               ELSE /\ Len(new) = Len(prompt.source)
                    /\ \A i \in DOMAIN new :
                          /\ new[i].content = prompt.source[i].content
                          /\ new[i].session_id =
                                IF "session_id" \in DOMAIN prompt.source[i]
                                THEN prompt.source[i].session_id ELSE session_id

\* ------------------------------------------------------------------ C17
\* a text without its whitespace
RECURSIVE Squeeze(_)
Squeeze(s) ==
    IF s = <<>> THEN <<>>
    ELSE IF Head(s) \in Whitespace THEN Squeeze(Tail(s))
    ELSE <<Head(s)>> \o Squeeze(Tail(s))

\* the texts of the wire that have been delivered whole
Arrived ==
    LET left == Len(Squeeze(rd.wire))
        RECURSIVE Fits(_, _)
        Fits(ts, room) ==
            IF ts = <<>> \/ Len(Squeeze(Head(ts))) > room THEN 0
            ELSE 1 + Fits(Tail(ts), room - Len(Squeeze(Head(ts))))
        total == Len(Squeeze(WireOf(rd.items, <<>>)))
    IN  Fits(rd.items, total - left)

\* C17: on a wire of complete JSON objects, each followed by one or more
\* newlines and delivered in chunks cut at any position, read_messages()
\* yields one parsed object for every object that has arrived whole, in wire
\* order: an object split over chunks is yielded once, and objects that
\* share a chunk are each yielded. (The yielded object is compared with the
\* wire's up to whitespace.)
C17_OneObjectEach ==
    (rd.st # "idle" /\ \A i \in DOMAIN rd.items : rd.items[i] \in Objects) =>
        /\ rd.st # "failed"
        /\ Len(rd.yielded) = Arrived
        /\ \A i \in DOMAIN rd.yielded :
              Squeeze(rd.yielded[i]) = Squeeze(JsonLoads(rd.items[i]).data)

\* two objects have been yielded that arrived in three chunks: the first was
\* split, and a chunk held the end of the first and all of the second
C17_Witness ==
    /\ rd.st = "ended" /\ rd.chunks = 2
    /\ Len(rd.items) = 2 /\ rd.items[1] # rd.items[2]
    /\ \A i \in DOMAIN rd.items : rd.items[i] \in Objects
    /\ Len(rd.yielded) = 2

\* ------------------------------------------------------------------ C18
\* C18: the receive buffer is never longer than the maximum: read_messages()
\* fails with a decode error exactly when the text accumulated for an
\* unterminated fragment has exceeded the maximum, and the buffer is empty
\* then.
C18_BufferBounded ==
    /\ Len(rd.json_buffer) <= MAX_BUFFER_SIZE
    /\ (rd.peak > MAX_BUFFER_SIZE) = (rd.st = "failed")
    /\ rd.st = "failed" => rd.json_buffer = <<>>

\* read_messages() has failed on a fragment that came in several chunks,
\* with a complete object still on the wire that is not yielded
C18_Witness ==
    /\ rd.st = "failed" /\ rd.json_buffer = <<>>
    /\ rd.peak = MAX_BUFFER_SIZE + 1
    /\ rd.chunks > 1
    /\ rd.yielded = <<>>
    /\ Len(rd.items) = 2 /\ rd.items[2] \in Objects
    /\ Len(rd.wire) > Len(rd.items[2])

\* ------------------------------------------------------------------ C19
\* the calls made to the registered server
BadToolCall(c) ==
    /\ c.server_name \in sdk_mcp_servers
    /\ c.message.method = "tools/call" /\ c.message.params.name \notin tool_map
BadMethodCall(c) ==
    /\ c.server_name \in sdk_mcp_servers
    /\ c.message.method = "resources/list"

\* the response is marked as an error: a JSONRPC error, or a result with
\* is_error set
IsErrorResponse(response) ==
    \/ "error" \in DOMAIN response
    \/ /\ "result" \in DOMAIN response
       /\ "is_error" \in DOMAIN response.result
       /\ response.result.is_error

\* C19: tools/call for a tool that is not registered is answered with an
\* error result, a method the bridge does not know with a "method not found"
\* error, and a tools/call for a registered tool that follows either of them
\* with the handler's text content. (Violated: the answer for an unknown
\* tool is a result that holds the text of the error and no error mark.)
C19_BadCallsAnswered ==
    \A n \in DOMAIN mcp :
        /\ BadToolCall(mcp[n]) => IsErrorResponse(mcp[n].response)
        /\ BadMethodCall(mcp[n]) =>
              /\ "error" \in DOMAIN mcp[n].response
              /\ mcp[n].response.error.message = "Method not found"
        /\ (/\ n > 1
            /\ BadToolCall(mcp[n - 1]) \/ BadMethodCall(mcp[n - 1])
            /\ mcp[n].server_name \in sdk_mcp_servers
            /\ mcp[n].message.method = "tools/call"
            /\ mcp[n].message.params.name = "add") =>
              mcp[n].response.result = [content |-> <<[type |-> "text", text |-> "sum"]>>]

\* C20: while a handler task is suspended in a user callback, the reader is
\* not held up by it: it can read the next content message, control response
\* or control request, the consumer can take what is queued, a caller whose
\* response has arrived can resume, and any suspended callback can return and
\* have its request answered
SuspendedDispatch == {k \in DOMAIN dispatch : dispatch[k].st = "running"}

C20_ReaderKeepsReading ==
    (SuspendedDispatch # {} /\ tg = "active") =>
        /\ (reader = "running" /\ rpend = <<>> /\ tr.process /\ nread < MaxRead) =>
              /\ ENABLED ReadAssistantObject
              /\ (ResponseObjects # {} => ENABLED ReadResponseObject)
              /\ (NextSlot <= MaxInbound => ENABLED ReadPermissionRequest)
        /\ (cons.st = "iterating" /\ queue # <<>>) => ENABLED ConsumerNext
        /\ (\E request_id \in 1..MaxReq :
               /\ req[request_id].st = "waiting"
               /\ pending_control_responses[request_id] = "set") => ENABLED RequestResolved
        /\ ENABLED DispatchFinish

\* the first object read was a permission request whose callback has not
\* returned; read after it, a content message reached the caller, a control
\* response resolved an interrupt, and a second request was answered
C20_Witness ==
    /\ dispatch[1].st = "running" /\ dispatch[1].at = 1
    /\ dispatch[2].st = "done" /\ dispatch[2].at > 1 /\ dispatch[2].lines # <<>>
    /\ delivered # <<>>
    /\ \E request_id \in 1..MaxReq : req[request_id].st = "ok"


\* ------------------------------------------------------------------ C21
\* the dispatch tasks whose response could not be written
WriteFailed == {k \in DOMAIN dispatch : dispatch[k].st = "crashed"}

\* C21: while nobody has closed the Engine, a dispatch whose response write
\* failed leaves the rest of the session alone: the task group stays active,
\* the reader is not cancelled, no other dispatch is cancelled and the input
\* streamer is not cancelled. (Violated: the failed write of the error
\* response raises out of the task and the task group cancels every task.)
C21_WriteFailureContained ==
    (~closed /\ WriteFailed # {}) =>
        /\ tg = "active"
        /\ reader # "cancelled"
        /\ \A j \in DOMAIN dispatch : dispatch[j].st # "cancelled"
        /\ streamer # "cancelled"


\* ------------------------------------------------------------------ C22
\* the dispatches of requests that arrived after end-of-input and whose
\* handler has run to its end
AnsweredLate == {k \in Ended : dispatch[k].late}

\* C22: in a live session, an inbound control request read after the input
\* streamer has called end_input() is answered with exactly one control
\* response carrying its correlation ID, and the session keeps running: the
\* task group stays active and the reader is not cancelled. (Violated:
\* end_input() drops the stdin stream, so the response cannot be written.)
C22_AnsweredAfterEndInput ==
    SessionLive =>
        \A k \in AnsweredLate :
            /\ Len(dispatch[k].lines) = 1
            /\ dispatch[k].lines[1].response.request_id = dispatch[k].request.request_id
            /\ tg = "active"
            /\ reader # "cancelled"


\* ------------------------------------------------------------------ C23
\* the outbound requests written to the transport and waiting for a response
AwaitingResponse ==
    {i \in 1..MaxReq : req[i].st = "waiting" /\ pending_control_responses[i] = "unset"}

\* C23: while an outbound control request waits for its response and the
\* reader task is alive on a running transport, the reader can read the
\* control response, whatever the state of the content queue and of its
\* consumer. (Violated: with the queue full the reader is suspended in send()
\* on a content message and reads nothing until the consumer takes an item;
\* only the timeout can end the call.)
C23_ResponseNotHeldUp ==
    (AwaitingResponse # {} /\ reader = "running" /\ tr.process /\ nread < MaxRead) =>
        ENABLED ReadResponseObject


\* ------------------------------------------------------------------ C24
\* the three control types of the wire
ControlTypes == {"control_response", "control_request", "control_cancel_request"}

\* every object the transport can yield next
WireObjects ==
    ContentObjects \cup ResponseObjects \cup StrayObjects \cup RequestObjects
        \cup CancelObjects

\* the pending tables are as they were
PendingUnchanged ==
    /\ pending_control_responses' = pending_control_responses
    /\ pending_control_results' = pending_control_results

\* a step in which the reader took one object from the transport and went on
ObjectRead == nread' = nread + 1 /\ reader' \notin {"finishing", "done"}

\* the four destinations of an object, as what a read step changes
Enqueued(m) ==
    /\ content_read' = Append(content_read, m)
    /\ \/ queue' = Append(queue, m) /\ rpend' = <<>>
       \/ queue' = queue /\ rpend' = <<m>>
    /\ dispatch' = dispatch
    /\ PendingUnchanged

Dispatched(m) ==
    /\ \E k \in DOMAIN dispatch :
          /\ dispatch[k].st = "free"
          /\ dispatch'[k].st = "running" /\ dispatch'[k].request = m
          /\ \A j \in DOMAIN dispatch \ {k} : dispatch'[j] = dispatch[j]
    /\ UNCHANGED <<content_read, queue, rpend>>
    /\ PendingUnchanged

ResolvedBy(m) ==
    LET request_id == m.response.request_id IN
    /\ pending_control_responses'[request_id] = "set"
    /\ pending_control_results'[request_id] = StoredResult(m.response)
    /\ \A j \in 1..MaxReq \ {request_id} :
          /\ pending_control_responses'[j] = pending_control_responses[j]
          /\ pending_control_results'[j] = pending_control_results[j]
    /\ UNCHANGED <<content_read, queue, rpend, dispatch>>

Dropped ==
    /\ UNCHANGED <<content_read, queue, rpend, dispatch>>
    /\ PendingUnchanged

RoutedByType(m) ==
    CASE m.type = "control_response" ->
           IF IsPending(m.response.request_id) THEN ResolvedBy(m) ELSE Dropped
      [] m.type = "control_request" -> Dispatched(m)
      [] m.type = "control_cancel_request" -> Dropped
      [] OTHER -> Enqueued(m)

\* no object of a control type is in the content stream
ContentOnly ==
    /\ \A i \in 1..Len(queue) : queue[i].type \notin ControlTypes
    /\ \A i \in 1..Len(rpend) : rpend[i].type \notin ControlTypes
    /\ \A i \in 1..Len(delivered) : delivered[i].data.type \notin ControlTypes

\* C24: every read of an object is the routing of one object of the wire to
\* the one destination of its type, and changes nothing else: a
\* control_response sets the pending entry of its ID or changes nothing, a
\* control_request occupies one new dispatch slot, a control_cancel_request
\* changes nothing, any other object is appended to the content read and goes
\* to the queue (or waits for room in it); and no object of a control type is
\* ever in the content stream
C24_RoutedByType ==
    [][/\ ObjectRead => \E m \in WireObjects : RoutedByType(m)
       /\ ContentOnly']_vars

\* a content message was delivered, a permission request is being handled,
\* the interrupt was resolved by its response, and a fourth object, of a
\* control type, was read
C24_Witness ==
    /\ nread = 4
    /\ Len(content_read) = 1 /\ Len(delivered) = 1
    /\ dispatch[1].st = "running" /\ dispatch[2].st = "free"
    /\ req[1].st \in {"ok", "error"}


\* ------------------------------------------------------------------ C25
\* the calls that completed with a response
Answered == {i \in 1..MaxReq : req[i].st \in {"ok", "error"}}

\* a completed call got the response stored under its own ID, and returned
\* or raised what that response holds
OwnResponse(i) ==
    /\ req[i].got \in OwnResults(i)
    /\ ("request_id" \in DOMAIN req[i].got) => req[i].got.request_id = i
    /\ req[i].st = ControlResult(req[i].got).st
    /\ req[i].result = ControlResult(req[i].got).result

\* C25: every call that completed with a response completed with the response
\* carrying its own correlation ID; and a step in which the reader takes an
\* object completes no call, leaves every entry that is not pending absent,
\* and changes at most one pending entry, storing a response to that very ID
C25_ResolvedByOwnId ==
    [][/\ \A i \in Answered : OwnResponse(i)
       /\ ObjectRead =>
             /\ req' = req
             /\ \A i \in 1..MaxReq :
                   ~IsPending(i) => /\ pending_control_responses'[i] = "absent"
                                    /\ pending_control_results'[i] = None
             /\ \/ PendingUnchanged
                \/ \E i \in 1..MaxReq :
                      /\ IsPending(i)
                      /\ pending_control_responses'[i] = "set"
                      /\ pending_control_results'[i] \in OwnResults(i)
                      /\ \A j \in 1..MaxReq \ {i} :
                            /\ pending_control_responses'[j] = pending_control_responses[j]
                            /\ pending_control_results'[j] = pending_control_results[j]]_vars

\* two calls were in flight; the second completed with its own response while
\* the first, sent before it, still waits; the third call has timed out, and
\* a second object was read that resolved nothing new
C25_Witness ==
    /\ req[1].st = "waiting" /\ pending_control_responses[1] = "unset"
    /\ req[2].st = "ok" /\ req[2].got.request_id = 2
    /\ req[3].st = "timeout"
    /\ nread = 2


\* ------------------------------------------------------------------ C26
\* the calls that completed by a response or by the timeout
Finished == {i \in 1..MaxReq : req[i].st \in {"ok", "error", "timeout"}}

\* the result table has nothing under ID i
NoResult(results, i) == ToString(results[i]) = ToString(None)

\* C26: the counter never decreases and the correlation IDs in use are
\* exactly the counter values passed so far, one call each: a call keeps its
\* ID, and a completed call is never started again under it; an ID has a
\* stored result only while its one pending entry is set; and the ID of a
\* call that completed by a response or by the timeout is in neither table
C26_FreshIds ==
    [][/\ request_counter' >= request_counter
       /\ \A i \in 1..MaxReq :
             /\ req'[i].st # "idle" <=> i <= request_counter'
             /\ req[i].st \notin {"idle", "waiting"} => req'[i] = req[i]
             /\ req[i].st = "waiting" => req'[i].subtype = req[i].subtype
             /\ pending_control_responses'[i] # "set" =>
                   NoResult(pending_control_results', i)
       /\ \A i \in Finished : ~IsPending(i) /\ NoResult(pending_control_results, i)]_vars

\* three calls were made: the first completed by a success response, the
\* second by an error response and the third by the timeout, and the reader
\* took a third object besides the two responses that completed calls
C26_Witness ==
    /\ req[1].st = "ok" /\ req[2].st = "error" /\ req[3].st = "timeout"
    /\ nread = 3


\* ------------------------------------------------------------------ C27
\* C27: a call of _send_control_request whose write failed raised the
\* transport's error, and once a call has returned or raised, for whatever
\* reason, neither pending table holds an entry for its correlation ID.
\* (Violated: the write is made after the event is registered and outside the
\* try, so a failed write leaves the event entry in the table.)
C27_NothingLeftPending ==
    \A i \in Completed :
        /\ req[i].st = "write_failed" => req[i].result = "CLIConnectionError"
        /\ ~IsPending(i)
        /\ NoResult(pending_control_results, i)


\* ------------------------------------------------------------------ C28
\* the end sentinels among the items of a sequence of queue items
EndsOf(items) == SelectSeq(items, LAMBDA item : item.type = "end")

\* the reader task has terminated
ReaderTerminated == reader \in {"done", "cancelled"}

\* C28: the reader never sends anything after an end sentinel, and once it
\* has terminated, however it did, it has enqueued the sentinel exactly once:
\* while the caller has made at most one receive call, the sentinel is the
\* last item of the queue, or that call has consumed it and the queue is
\* empty. (Violated: a reader that is cancelled enqueues nothing.)
C28_EndSentinelOnce ==
    /\ LET sent == queue \o rpend IN
       \A i \in 1..Len(sent) : sent[i].type = "end" => i = Len(sent)
    /\ (ReaderTerminated /\ ncalls <= 1) =>
          IF cons.st = "ended"
          THEN queue = <<>>
          ELSE Len(EndsOf(queue)) = 1 /\ queue[Len(queue)].type = "end"


\* ------------------------------------------------------------------ C29
\* the reader has ended by itself and everything it sent has been consumed:
\* no item can arrive any more
StreamExhausted == reader = "done" /\ queue = <<>> /\ rpend = <<>>

\* C29: in a session that nobody has closed and whose task group is alive, no
\* receive call is left waiting on a content stream that has ended and been
\* consumed. (Violated: the send side of the stream is never closed, so a
\* call made after the end sentinel was consumed waits for an item for ever.)
C29_ReceiveAfterEndReturns ==
    ~(cons.st = "iterating" /\ StreamExhausted /\ tg = "active" /\ ~closed)


\* ------------------------------------------------------------------ C30
\* no task of the Engine is running
TasksStopped ==
    /\ reader \notin {"running", "finishing"}
    /\ \A k \in DOMAIN dispatch : dispatch[k].st # "running"
    /\ streamer # "running"

\* C30: once close() has been called, the reader, every dispatch and the
\* input streamer have stopped, the transport is closed, and close() raised
\* nothing to its caller. (Violated: when a dispatch has crashed the task
\* group, the group's exception is raised out of close() and the transport
\* is left open.)
C30_CloseStopsAll ==
    closed =>
        /\ TasksStopped
        /\ ~tr.process
        /\ \A i \in 1..Len(closing.errors) : closing.errors[i] = None

\* ------------------------------------------------------------------ C31
\* C31: when connect() raises, the client is left disconnected: the session
\* of the failed attempt has no reader task and no subprocess, the client
\* holds no Engine, and a following query(), interrupt() or receive call fails
\* with the not-connected error. (Violated: when initialize() raises, connect()
\* has stored the transport and the started Engine already and undoes
\* nothing: the subprocess and the reader task stay, and a following query()
\* is written to the subprocess.)
C31_FailedConnectDisconnects ==
    /\ client.phase = "connect_failed" =>
          /\ client.query = 0
          /\ ~client.sessions[Len(client.sessions)].reader
          /\ ~client.sessions[Len(client.sessions)].process
    /\ (client.last.phase = "connect_failed"
            /\ client.last.op \in SessionCalls) =>
          client.last.outcome = NotConnected

\* ------------------------------------------------------------------ C32
\* the reader is suspended in send(): the buffer is full and it holds what it
\* could not enqueue
ReaderSuspended == rpend # <<>> /\ Len(queue) = QueueCap

\* C32: the content queue never holds more than its capacity; while it is full
\* and the reader has an item to enqueue, the reader (unless it is cancelled)
\* reads nothing more and keeps the item until the consumer takes the first
\* item of the queue, which lets the held item in behind the others; and every
\* content message read is yielded, queued or held by the reader: none is
\* dropped or overwritten.
C32_QueueBounded ==
    [][/\ Len(queue') <= QueueCap
       /\ (ReaderSuspended /\ reader' # "cancelled" /\ ~closed') =>
             /\ nread' = nread
             /\ \/ rpend' = rpend /\ queue' = queue
                \/ /\ rpend' = Tail(rpend)
                   /\ queue' = Append(Tail(queue), Head(rpend))
             /\ content_read' = Raw(delivered') \o ContentOf(queue' \o rpend')
      ]_vars

\* the reader is suspended on the full queue after the consumer has taken a
\* message: more content was read than the queue can hold
C32_Witness ==
    /\ ReaderSuspended
    /\ reader = "running" /\ ~closed
    /\ Len(delivered) >= 1
    /\ Len(content_read) > QueueCap + 1

\* ------------------------------------------------------------------ C33
\* the lines of the messages of a prompt stream, one each, in its order
LinesOf(messages) == [i \in 1..Len(messages) |-> JsonLine(messages[i])]

\* the messages the prompt stream had when stream_input was started
WholeSource == [i \in 1..(Len(source.lines) + Len(source.left)) |->
                    IF i <= Len(source.lines) THEN source.lines[i][1]
                    ELSE source.left[i - Len(source.lines)]]

C33_WitnessFailed ==
    /\ streamer = "failed" /\ Len(source.lines) = 1 /\ Len(source.left) >= 1
    /\ reader = "running" /\ tg = "active"

\* ------------------------------------------------------------------ C34
\* C34: however often start() is called on one Engine, at most one reader
\* task is ever started, and exactly one once start() has been called: a
\* start() on an Engine that has a task group already starts nothing.
C34_OneReader ==
    /\ closing.spawned <= 1
    /\ closing.starts >= 1 => closing.spawned = 1
    /\ closing.spawned = 0 => (reader = "none" /\ tg = "none")

\* start() was called three times, the last time after the reader had read
\* and close() had been called: one reader task was started
C34_Witness ==
    /\ closing.starts = 3 /\ closing.spawned = 1
    /\ closing.calls >= 1 /\ nread >= 1

\* ------------------------------------------------------------------ C35
\* the events of the hook settings that have matchers, in the settings' order
EventsWithMatchers == SelectSeq(hooks.hooks, LAMBDA item : item.matchers # <<>>)

\* the places of the callback IDs in the configurations sent so far: call c,
\* event e, matcher i, callback j
SentPlaces ==
    {p \in (1..Len(hooks.sent)) \X (1..Len(EventsWithMatchers)) \X (1..2) \X (1..2) :
        /\ p[3] <= Len(EventsWithMatchers[p[2]].matchers)
        /\ p[4] <= Len(Get(EventsWithMatchers[p[2]].matchers[p[3]], "hooks", <<>>))}
SentId(p) == hooks.sent[p[1]][p[2]].config[p[3]].hookCallbackIds[p[4]]

\* the configuration sent by call c is that of the settings: an entry per
\* event that has matchers, and per matcher its original pattern and one
\* registered ID per callback, in callback order, each ID registered for that
\* callback
SentAsRegistered(c) ==
    IF EventsWithMatchers = <<>> THEN ToString(hooks.sent[c]) = ToString(None)
    ELSE /\ Len(hooks.sent[c]) = Len(EventsWithMatchers)
         /\ \A e \in 1..Len(EventsWithMatchers) :
              LET item == EventsWithMatchers[e]
                  entry == hooks.sent[c][e]
              IN  /\ entry.event = item.event
                  /\ Len(entry.config) = Len(item.matchers)
                  /\ \A i \in 1..Len(item.matchers) :
                       LET callbacks == Get(item.matchers[i], "hooks", <<>>)
                           ids == entry.config[i].hookCallbackIds
                       IN  /\ entry.config[i].matcher =
                                 Get(item.matchers[i], "matcher", None)
                           /\ Len(ids) = Len(callbacks)
                           /\ \A j \in 1..Len(ids) :
                                /\ ids[j] \in hook_callbacks
                                /\ hooks.hook_callbacks[ids[j]] = callbacks[j]

\* the registry holds the IDs sent, each once, and all of the form hook_<n>
RegistryAsSent ==
    /\ \A p, q \in SentPlaces : p # q => SentId(p) # SentId(q)
    /\ hook_callbacks = {SentId(p) : p \in SentPlaces}
    /\ hook_callbacks = {HookId(n) : n \in 0..(hooks.next_callback_id - 1)}
    /\ \A c \in 1..Len(hooks.sent) : SentAsRegistered(c)

\* a dispatch finishes in this step
Finishing(k) == dispatch[k].st = "running" /\ dispatch'[k].st = "done"

\* C35: only initialize() changes the hook state, and after it the
\* configurations sent so far name, for each matcher, its original pattern and
\* one hook_<n> ID per callback in callback order, each ID is registered for
\* that callback, no ID is used twice, within a call or over several, and no
\* entry that was in the registry has changed; and a hook_callback request
\* with a registered ID awaits the callback registered under that ID, one with
\* another ID awaits none.
C35_HookRegistry ==
    [][/\ hooks' # hooks =>
             /\ Len(hooks'.sent) = Len(hooks.sent) + 1
             /\ RegistryAsSent'
             /\ \A id \in hook_callbacks :
                  /\ id \in hook_callbacks'
                  /\ hooks'.hook_callbacks[id] = hooks.hook_callbacks[id]
       /\ \A k \in DOMAIN dispatch :
            Finishing(k) =>
               LET id == dispatch[k].request.request.callback_id
                   cb == dispatch'[k].cb
               IN  IF id \in hook_callbacks
                   THEN /\ "callback" \in DOMAIN cb
                        /\ cb.callback = hooks.hook_callbacks[id]
                   ELSE cb.kind = "none"
      ]_vars

\* initialize() was called twice on an Engine with two matchers of two
\* callbacks each, and a hook_callback request with an ID of the second call
\* was answered by its callback
C35_Witness ==
    /\ Len(hooks.sent) = 2 /\ hooks.next_callback_id = 8
    /\ \E k \in DOMAIN dispatch :
         /\ dispatch[k].st = "done"
         /\ dispatch[k].request.request.callback_id = HookId(6)
         /\ "callback" \in DOMAIN dispatch[k].cb
         /\ dispatch[k].cb.callback = "audit"
         /\ dispatch[k].cb.kind = "return"

\* ------------------------------------------------------------------ C36
\* C36: the one-shot query calls close() at most once and only when the body
\* of process_query has ended; that call closes the transport, once, and
\* raises nothing; and when the content stream ended or delivered an error,
\* every content message read before has been yielded. (Violated: when a
\* dispatch has crashed the task group, as in C21 and C22, the iteration is
\* cancelled, close() raises the group's exception and the transport is never
\* closed.)
C36_ClosedOnce ==
    /\ closing.calls <= 1 /\ closing.releases <= 1
    /\ closed =>
          /\ QueryFinished
          /\ closing.calls = 1 /\ closing.releases = 1
          /\ ~tr.process
          /\ \A i \in 1..Len(closing.errors) : closing.errors[i] = None
    /\ (closed /\ cons.st \in {"ended", "failed"}) =>
          Raw(delivered) = content_read

\* the same for the three endings of the claim, on a task group that has not
\* crashed; it holds
C36_ThreeEndings ==
    (closed /\ \A k \in DOMAIN dispatch : dispatch[k].st # "crashed") =>
        C36_ClosedOnce

\* the three endings, each closed once
C36_EndedNormally ==
    /\ closed /\ cons.st = "ended" /\ Len(delivered) = 2 /\ closing.releases = 1
C36_EndedByError ==
    /\ closed /\ cons.st = "failed" /\ Len(delivered) >= 1 /\ closing.releases = 1
C36_InitializeFailed ==
    /\ closed /\ cons.st = "idle" /\ InitializeRaised /\ closing.releases = 1

\* ------------------------------------------------------------------ C37
\* dispatch k has answered an mcp_message request that names a server which is
\* not registered
UnknownServerCall(k) ==
    /\ dispatch[k].st = "done"
    /\ dispatch[k].request.request.subtype = "mcp_message"
    /\ "message" \in DOMAIN dispatch[k].request.request
    /\ Get(dispatch[k].request.request, "server_name", None)
           \notin sdk_mcp_servers \cup {None}

\* C37: the answer to an mcp_message request for a server that is not
\* registered is one control response of subtype error with the request's
\* correlation ID, and answering it cancels neither the reader nor another
\* dispatch. (Violated: the answer is a control response of subtype success
\* whose mcp_response is a JSONRPC error object.)
C37_UnknownServerIsError ==
    \A k \in DOMAIN dispatch :
        UnknownServerCall(k) =>
            /\ Len(dispatch[k].lines) = 1
            /\ dispatch[k].lines[1].response.request_id = dispatch[k].request.request_id
            /\ dispatch[k].lines[1].response.subtype = "error"
            /\ (~closed /\ \A j \in DOMAIN dispatch : dispatch[j].st # "crashed") =>
                  /\ tg = "active" /\ reader # "cancelled"
                  /\ \A j \in DOMAIN dispatch : dispatch[j].st # "cancelled"

\* what the code does instead: one success response with the request's
\* correlation ID that wraps the bridge's JSONRPC error, and nothing is
\* cancelled; it holds
C37_UnknownServerWrapped ==
    \A k \in DOMAIN dispatch :
        UnknownServerCall(k) =>
            /\ Len(dispatch[k].lines) = 1
            /\ dispatch[k].lines[1].response.request_id = dispatch[k].request.request_id
            /\ dispatch[k].lines[1].response.subtype = "success"
            /\ dispatch[k].lines[1].response.response.mcp_response.error.message
                   = "Server not found"
            /\ (~closed /\ \A j \in DOMAIN dispatch : dispatch[j].st # "crashed") =>
                  /\ tg = "active" /\ reader # "cancelled"
                  /\ \A j \in DOMAIN dispatch : dispatch[j].st # "cancelled"

\* ------------------------------------------------------------------ C38
\* a tools/call for a registered tool of the registered server
ToolCall(c) ==
    /\ c.server_name \in sdk_mcp_servers
    /\ c.message.method = "tools/call" /\ c.message.params.name \in tool_map

\* the handler of the tool signalled an error: it raised, or it returned a
\* result with is_error set
SignalledError(name) ==
    \/ "raise" \in DOMAIN ToolHandler(name)
    \/ Get(ToolHandler(name), "is_error", FALSE)

\* C38: the result of a tools/call for a registered tool holds the content
\* items the handler returned, texts as text items and images as image items
\* with data and mimeType, in the handler's order, and it has is_error = TRUE
\* exactly when the handler signalled an error. (Violated: call_tool passes on
\* only the text items and not the handler's is_error, and the bridge looks
\* for an attribute is_error where the result's field is isError.)
C38_ToolResult ==
    \A n \in DOMAIN mcp :
        ToolCall(mcp[n]) =>
            LET name == mcp[n].message.params.name
                result == mcp[n].response.result
            IN  /\ "content" \in DOMAIN ToolHandler(name) =>
                      result.content = WireContent(ToolHandler(name).content)
                /\ ("is_error" \in DOMAIN result /\ result.is_error)
                      = SignalledError(name)

\* what holds instead: the result has the handler's text items in order, or
\* the text of what it raised, and never an error mark
C38_TextOnly ==
    \A n \in DOMAIN mcp :
        ToolCall(mcp[n]) =>
            LET name == mcp[n].message.params.name
                result == mcp[n].response.result
            IN  /\ "content" \in DOMAIN ToolHandler(name) =>
                      result.content =
                          SelectSeq(ToolHandler(name).content,
                                    LAMBDA item : item.type = "text")
                /\ "is_error" \notin DOMAIN result

\* ------------------------------------------------------------------ C39
\* the wire held a line that is not JSON
MalformedOnWire == \E i \in DOMAIN rd.items : rd.items[i] \in Malformed

\* C39: when the output held a line that is not JSON, read_messages() does
\* not end normally: by the time the stream is over it has raised a decode
\* error. (Violated: a line that does not parse is kept in the buffer, the
\* next line is appended to it, and what is in the buffer when the stream ends
\* is dropped without an error.)
C39_MalformedIsFatal ==
    (MalformedOnWire /\ rd.st # "reading") => rd.st = "failed"

\* what holds instead: a line that is not JSON raises nothing as long as the
\* buffer stays within its limit, and read_messages() that ended normally has
\* yielded fewer objects than there were lines and dropped what it held
C39_MalformedDropped ==
    /\ (rd.st = "failed") = (rd.peak > MAX_BUFFER_SIZE)
    /\ (MalformedOnWire /\ rd.st = "ended") =>
          /\ rd.json_buffer # <<>>
          /\ Len(rd.yielded) < Len(rd.items)


\* ------------------------------------------------------------------ C40
\* the text of one JSON object has been delivered, in any chunks, and read
OneObjectRead ==
    /\ rd.st = "ended"
    /\ Len(rd.items) = 1 /\ rd.items[1] \in Objects

\* C40: for every way of cutting the text of one JSON object into chunks,
\* the object read_messages() yields is equal to the object on the wire:
\* no character is removed or added. (Violated: every chunk and every line
\* of it is stripped before it is appended to the buffer, so whitespace of a
\* string value that lies at a cut is removed.)
C40_ReassemblyExact ==
    OneObjectRead =>
        /\ Len(rd.yielded) = 1
        /\ rd.yielded[1] = JsonLoads(rd.items[1]).data

\* what holds instead: one object is yielded, and it differs from the
\* object on the wire in whitespace only
C40_ReassemblyUpToWhitespace ==
    OneObjectRead =>
        /\ Len(rd.yielded) = 1
        /\ Squeeze(rd.yielded[1]) = Squeeze(JsonLoads(rd.items[1]).data)

\* an object with whitespace inside its string value was read in two chunks
\* and yielded without that whitespace
C40_WhitespaceLost ==
    /\ OneObjectRead /\ rd.chunks = 2
    /\ Len(rd.yielded) = 1
    /\ Len(rd.yielded[1]) < Len(JsonLoads(rd.items[1]).data)

====
